---- MODULE Spec2Model ----
(***************************************************************************)
(* job_snatcher: the job record store, the ingestion guard (ingest_job),   *)
(* the cosine / reasoning / generator services, the Wake-on-LAN gate of   *)
(* the reasoning service (wake_and_wait), the score combiner and the       *)
(* Airflow pipeline that sequences them.                                    *)
(*                                                                          *)
(* Scores are fixed-point numbers in units of 10^-5 (0.6 is 60000); a      *)
(* value rounded to 4 decimal digits is a multiple of 10.  An optional      *)
(* column is <<>> (None / NULL) or <<v>>.                                   *)
(***************************************************************************)
EXTENDS Integers, Sequences, FiniteSets, TLC

\* ---------------------------------------------------------------- bounds
\* number of concurrent callers of POST /ingest
NumClients == 2
\* longest job_urls list of a DAG run
MaxBatch == 2
\* largest `retries` a direct call of wake_and_wait passes
MaxRetries == 4
\* number of times the scheduler triggers the DAG on the same conf
MaxRuns == 2
\* groups of characters in a MAC address string
MaxGroups == 6
\* highest version of a professional asset
MaxVersion == 3

\* ------------------------------------------------------------- optionals
None == <<>>
Some(v) == <<v>>
Val(x) == x[1]

\* ------------------------------------------------------------------ URLs
\* a URL as urlparse splits it; the path names the page behind it
Pages == {"far", "near_half", "below_gate", "at_gate", "close",
          "no_description", "no_title", "garbled"}
ValidUrls == {[scheme |-> "https", netloc |-> "jobs.example", path |-> p] : p \in Pages}
InvalidUrls == {[scheme |-> "ftp", netloc |-> "jobs.example", path |-> "close"],
                [scheme |-> "https", netloc |-> "", path |-> "close"]}
Urls == ValidUrls \cup InvalidUrls
url_is_valid(url) == url.scheme \in {"http", "https"} /\ url.netloc # ""

\* the URLs of dag_run.conf: one that is rejected, and a page of each kind
DagUrls == {u \in Urls : \/ u.scheme = "ftp"
                         \/ /\ url_is_valid(u)
                            /\ u.path \in {"near_half", "below_gate", "at_gate", "close",
                                           "no_description", "no_title", "garbled"}}
\* the URLs the concurrent callers submit
ClientUrls == {u \in Urls : u.path \in {"close", "no_title", "garbled"}}


\* ---------------------------------------------------------- descriptions
\* a job description, named by how close its embedding is to the narrative
Descriptions == {"far", "near_half", "below_gate", "at_gate", "close"}

\* parse_*_posting(html): "raise", or the parsed title and description
ParsePosting(url) ==
    CASE url.path = "garbled" -> [raised |-> TRUE, title |-> None, description |-> None]
      [] url.path = "no_title" -> [raised |-> FALSE, title |-> None, description |-> Some("close")]
      [] url.path = "no_description" -> [raised |-> FALSE, title |-> Some("parsed"), description |-> None]
      [] OTHER -> [raised |-> FALSE, title |-> Some("parsed"), description |-> Some(url.path)]

\* cosine_similarity(narrative_embedding, embed(description))
cosine_similarity(d) ==
    CASE d = "far" -> 40000
      [] d = "near_half" -> 49996
      [] d = "below_gate" -> 59996
      [] d = "at_gate" -> 60000
      [] d = "close" -> 80000

\* parsed['confidence'] values the reasoning LLM answers with
Confidences == {0, 12345, 12355, 50000}

\* len(cover_letter) values the generator LLM answers with
CoverLengths == {0, 99, 100}

\* ------------------------------------------------------ program constants
\* weights in tenths
COSINE_WEIGHT == 3
REASONING_WEIGHT == 7
MIN_COSINE_SCORE == 60000
GENERATE_THRESHOLD == 50000
MIN_COVER_LETTER == 100
\* retries: int = 3, the default match_jobs calls wake_and_wait with
WOL_RETRIES == 3
\* default_args['retries']: a failed task is tried once more
RETRIES == 1

VARIABLES
    jobs,   \* table job_applications: sequence of rows, row i has id i
    sess,   \* one ingest_job call per caller: position, url, outcome
    conf,   \* dag_run.conf['job_urls']
    task,   \* the task of the DAG that runs now, "done" or "failed"
    xcom,   \* the job_ids list each task pushed
    run,    \* the stage call in flight: position, results, failed
    wol,    \* the wake_and_wait call of the reasoning service
    dag_run,\* the number of the DAG run on this conf
    other,  \* a second DAG run in flight on the same store, not scheduled now
    udp,    \* one call of send_magic_packet: its argument, its outcome, what it sent
    assets, \* table professional_assets: sequence of rows
    files   \* the files of the assets/ directory: content by asset_type

vars == <<jobs, sess, conf, task, xcom, run, wol, dag_run, other, udp, assets, files>>
pipe == <<conf, task, xcom, run, wol, dag_run, other, udp, assets, files>>

\* callers of ingest_job: 0 is the request of the pipeline's ingest task
Clients == 1..NumClients
Sessions == 0..NumClients

JobIds == 1..Len(jobs)

\* JobApplication(...) as ingest_job builds it; defaults of db.py.  The
\* clock of date_found counts the inserts
NewJob(id, url, title, description) ==
    [id |-> id, job_url |-> url, job_title |-> title,
     job_description |-> description, date_found |-> id, status |-> "discovered",
     cosine_match_score |-> None, reasoning_match_score |-> None,
     reasoning_explanation |-> None, combined_match_score |-> None,
     cover_letter_draft |-> None, cv_variant_generated |-> None]

\* the idempotency check finds nothing
ExistingNone(url) == {}

\* db.query(JobApplication).filter_by(job_url=job_url)
Existing(url) == {i \in JobIds : jobs[i].job_url = url}

\* job_url without the unique constraint
NoUniqueConstraint(url) == FALSE

\* unique=True on job_url: the commit of a second row with this url fails
UniqueViolation(url) == \E i \in JobIds : jobs[i].job_url = url

IdleSession == [pc |-> "idle", url |-> None, outcome |-> "none", job_id |-> 0, added |-> 0]

Finish(s, url, outcome, job_id, added) ==
    sess' = [sess EXCEPT ![s] = [pc |-> "idle", url |-> Some(url), outcome |-> outcome,
                                 job_id |-> job_id, added |-> added]]

\* ingest_job without the validation of the url
IngestJobBeginUnvalidated(s, url) ==
    /\ sess[s].pc = "idle"
    /\ IF Existing(url) # {}
       THEN Finish(s, url, "DuplicateJobError", CHOOSE i \in Existing(url) : TRUE, 0)
       ELSE sess' = [sess EXCEPT ![s] = [pc |-> "fetch", url |-> Some(url),
                                         outcome |-> "none", job_id |-> 0, added |-> 0]]
    /\ UNCHANGED jobs

\* ingest_job, up to the idempotency check
IngestJobBegin(s, url) ==
    /\ sess[s].pc = "idle"
    /\ IF ~url_is_valid(url)
       THEN Finish(s, url, "ValueError", 0, 0)
       ELSE IF Existing(url) # {}
            THEN Finish(s, url, "DuplicateJobError", CHOOSE i \in Existing(url) : TRUE, 0)
            ELSE sess' = [sess EXCEPT ![s] = [pc |-> "fetch", url |-> Some(url),
                                              outcome |-> "none", job_id |-> 0, added |-> 0]]
    /\ UNCHANGED jobs

\* fetch_html: the page, or an exception that ingest_job re-raises
IngestFetch(s) ==
    /\ sess[s].pc = "fetch"
    /\ \E ok \in BOOLEAN :
         IF ok
         THEN sess' = [sess EXCEPT ![s].pc = "parse"]
         ELSE Finish(s, Val(sess[s].url), "HTTPError", 0, 0)
    /\ UNCHANGED <<jobs, pipe>>

\* the parser raised: the raw HTML is stored, then ParseError; a failing
\* commit leaves the call as the exception of the commit
IngestParseFailed(s) ==
    LET url == Val(sess[s].url)
        id == Len(jobs) + 1
    IN /\ sess[s].pc = "parse"
       /\ ParsePosting(url).raised
       /\ \E commits \in BOOLEAN :
            IF UniqueViolation(url)
            THEN /\ Finish(s, url, "IntegrityError", 0, 0)
                 /\ UNCHANGED jobs
            ELSE IF ~commits
                 THEN /\ Finish(s, url, "OperationalError", 0, 0)
                      /\ UNCHANGED jobs
                 ELSE /\ jobs' = Append(jobs, NewJob(id, url, "[parse failed]", None))
                      /\ Finish(s, url, "ParseError", 0, id)
       /\ UNCHANGED pipe

\* a missing title handled like a parser exception: the row is stored
IngestMissingTitleStored(s) ==
    LET url == Val(sess[s].url)
        id == Len(jobs) + 1
    IN /\ sess[s].pc = "parse"
       /\ ~ParsePosting(url).raised
       /\ ParsePosting(url).title = None
       /\ \E commits \in BOOLEAN :
            IF UniqueViolation(url)
            THEN /\ Finish(s, url, "IntegrityError", 0, 0)
                 /\ UNCHANGED jobs
            ELSE IF ~commits
                 THEN /\ Finish(s, url, "OperationalError", 0, 0)
                      /\ UNCHANGED jobs
                 ELSE /\ jobs' = Append(jobs, NewJob(id, url, "[parse failed]", None))
                      /\ Finish(s, url, "ParseError", 0, id)
       /\ UNCHANGED pipe

\* the parser found no title or no company
IngestMissingTitle(s) ==
    /\ sess[s].pc = "parse"
    /\ ~ParsePosting(Val(sess[s].url)).raised
    /\ ParsePosting(Val(sess[s].url)).title = None
    /\ Finish(s, Val(sess[s].url), "ParseError", 0, 0)
    /\ UNCHANGED <<jobs, pipe>>

\* the parsed posting is inserted and returned; a commit that fails, on
\* the unique constraint or otherwise, is rolled back and re-raised
IngestInsert(s) ==
    LET url == Val(sess[s].url)
        parsed == ParsePosting(url)
        id == Len(jobs) + 1
    IN /\ sess[s].pc = "parse"
       /\ ~parsed.raised
       /\ parsed.title # None
       /\ \E commits \in BOOLEAN :
            IF UniqueViolation(url)
            THEN /\ Finish(s, url, "IntegrityError", 0, 0)
                 /\ UNCHANGED jobs
            ELSE IF ~commits
                 THEN /\ Finish(s, url, "OperationalError", 0, 0)
                      /\ UNCHANGED jobs
                 ELSE /\ jobs' = Append(jobs, NewJob(id, url, Val(parsed.title), parsed.description))
                      /\ Finish(s, url, "ok", id, id)
       /\ UNCHANGED pipe

\* a caller other than the pipeline posts a URL to /ingest
ClientIngest(s, url) ==
    /\ IngestJobBegin(s, url)
    /\ UNCHANGED pipe

\* ------------------------------------------------------------- the pipeline
Tasks == <<"ingest", "cosine_match", "reasoning_match", "combine_scores", "generate", "curator_notify">>

NoXcom == [t \in {Tasks[k] : k \in 1..Len(Tasks)} |-> <<>>]

\* a stage call before its first item
FreshRun == [pc |-> "start", ids |-> <<>>, i |-> 1, results |-> <<>>, failed |-> 0,
             updated |-> 0, skipped |-> 0, raised |-> {}, wakes |-> 0,
             stage |-> "none", tries |-> 0]

\* --- the frame of wake_and_wait
\* a MAC address as its groups of two hex digits
MacAddresses == {<<"aa", "bb", "cc", "dd", "ee", "ff">>, <<"aa", "bb">>}

\* send_magic_packet accepts the address: 12 hex digits without separators
MacIsValid(mac) == 2 * Len(mac) = 12

\* config.GAMING_PC_MAC_ADDRESS: unset, or the address of the node
ConfiguredMacs == {None} \cup {Some(mac) : mac \in {m \in MacAddresses : MacIsValid(m)}}

\* no call of wake_and_wait in flight
WolIdle == [pc |-> "idle", mac |-> <<>>, retries |-> 0, attempt |-> 0, signals |-> 0,
            errors |-> 0, waits |-> 0, probes |-> 0, reachable |-> FALSE,
            result |-> "none"]

\* wake_and_wait(mac, host, port, retries) before its first probe
WolCall(mac, retries) == [WolIdle EXCEPT !.pc = "probe", !.mac = mac, !.retries = retries]

\* the value wake_and_wait returned, its frame gone
WolReturned(result) == [WolIdle EXCEPT !.result = result]

\* the asset types load_assets reads, in the order of ASSET_FILES
ASSET_FILES == <<"narrative", "career_goals">>
AssetTypes == {ASSET_FILES[k] : k \in 1..Len(ASSET_FILES)}

\* no file in the assets/ directory
NoFiles == [t \in AssetTypes |-> None]

\* send_magic_packet is not being called
NoPacket == [pc |-> "idle", mac_address |-> <<>>, sent |-> <<>>]

\* what a DAG run holds between two of its steps: its conf, the task it is at,
\* its XComs, the stage call in flight and that call's wake_and_wait
Batch(c, t, x, r, w) == [conf |-> c, task |-> t, xcom |-> x, run |-> r, wol |-> w]

\* no second DAG run
NoBatch == Batch(<<>>, "done", NoXcom, FreshRun, WolIdle)

\* sequences over S of length at most n
RECURSIVE SeqsUpTo(_, _)
SeqsUpTo(S, n) ==
    IF n = 0 THEN {<<>>}
    ELSE LET shorter == SeqsUpTo(S, n - 1)
         IN shorter \cup {Append(q, x) : q \in {r \in shorter : Len(r) = n - 1}, x \in S}

InitStore ==
    /\ jobs = <<>>
    /\ sess = [s \in Sessions |-> IdleSession]

InitPipe ==
    /\ task = "ingest"
    /\ xcom = NoXcom
    /\ run = FreshRun
    /\ wol = WolIdle
    /\ dag_run = 1
    /\ other = NoBatch
    /\ udp = NoPacket
    /\ assets = <<>>
    /\ files = NoFiles

Init ==
    /\ InitStore
    /\ InitPipe
    /\ conf \in SeqsUpTo(DagUrls, MaxBatch)

\* ------------------------------------------------------------ ingest_task
\* job_urls is empty: return [] without pushing job_ids
IngestTaskEmpty ==
    /\ task = "ingest"
    /\ conf = <<>>
    /\ task' = "cosine_match"
    /\ UNCHANGED <<jobs, sess, conf, dag_run, other, udp, assets, files, wol, xcom, run>>

\* _post(INGESTER_URL/ingest) for the next url of job_urls
IngestTaskPost ==
    /\ task = "ingest"
    /\ run.pc = "start"
    /\ run.i <= Len(conf)
    /\ IngestJobBegin(0, conf[run.i])
    /\ run' = [run EXCEPT !.pc = "wait"]
    /\ UNCHANGED <<conf, dag_run, other, udp, assets, files, wol, task, xcom>>

\* the existing job_id of a 409 answer is appended as well
IngestTaskCollectDuplicates ==
    /\ task = "ingest"
    /\ run.pc = "wait"
    /\ sess[0].pc = "idle"
    /\ run' = [run EXCEPT !.pc = "start", !.i = @ + 1,
                          !.results = IF sess[0].outcome \in {"ok", "DuplicateJobError"}
                                      THEN Append(@, sess[0].job_id) ELSE @]
    /\ UNCHANGED <<jobs, sess, conf, dag_run, other, udp, assets, files, wol, task, xcom>>

\* the answer of the ingester: 200 appends the job_id, every error is logged
IngestTaskCollect ==
    /\ task = "ingest"
    /\ run.pc = "wait"
    /\ sess[0].pc = "idle"
    /\ run' = [run EXCEPT !.pc = "start", !.i = @ + 1,
                          !.results = IF sess[0].outcome = "ok"
                                      THEN Append(@, sess[0].job_id) ELSE @]
    /\ UNCHANGED <<jobs, sess, conf, dag_run, other, udp, assets, files, wol, task, xcom>>

\* xcom_push(job_ids) after the last url
IngestTaskEnd ==
    /\ task = "ingest"
    /\ run.pc = "start"
    /\ conf # <<>>
    /\ run.i > Len(conf)
    /\ xcom' = [xcom EXCEPT !["ingest"] = run.results]
    /\ task' = "cosine_match"
    /\ run' = FreshRun
    /\ UNCHANGED <<jobs, sess, conf, dag_run, other, udp, assets, files, wol>>

\* ------------------------------------------------------- stage calls, shared
\* db.query(JobApplication).filter_by(id=job_id).first() is None
NotFound(job_id) == job_id \notin JobIds

\* a task without job_ids returns [] and pushes nothing
TaskEmpty(t, from, next) ==
    /\ task = t
    /\ run.pc = "start"
    /\ xcom[from] = <<>>
    /\ task' = next
    /\ UNCHANGED <<jobs, sess, conf, dag_run, other, udp, assets, files, wol, xcom, run>>

\* _post to a stage service: the service starts on the pulled job_ids
TaskPost(t, from) ==
    /\ task = t
    /\ run.pc = "start"
    /\ xcom[from] # <<>>
    /\ run' = [run EXCEPT !.pc = "loop", !.ids = xcom[from], !.stage = t]
    /\ UNCHANGED <<jobs, sess, conf, dag_run, other, udp, assets, files, wol, task, xcom>>

\* what is left of a task whose function was left by an exception: the task
\* and the number of the try
Raised == [FreshRun EXCEPT !.stage = run.stage, !.tries = run.tries]

\* the failure of the request also undoes the cosine scores stored so far
TaskAbortRollsBack(t) ==
    /\ task = t
    /\ run.pc = "loop"
    /\ task' = "failed"
    /\ run' = Raised
    /\ jobs' = [j \in 1..Len(jobs) |-> [jobs[j] EXCEPT !.cosine_match_score = <<>>]]
    /\ UNCHANGED <<sess, conf, dag_run, other, udp, assets, files, wol, xcom>>

\* _post raises (service unreachable, 5xx answer, timeout): the task fails
TaskAbort(t) ==
    /\ task = t
    /\ run.pc = "loop"
    /\ task' = "failed"
    /\ run' = Raised
    /\ UNCHANGED <<jobs, sess, conf, dag_run, other, udp, assets, files, wol, xcom>>

\* the task is tried again without a bound
TaskRetryAlways ==
    /\ task = "failed"
    /\ run.stage # "none"
    /\ task' = run.stage
    /\ run' = [FreshRun EXCEPT !.tries = run.tries + 1]
    /\ UNCHANGED <<jobs, sess, conf, dag_run, other, udp, assets, files, wol, xcom>>

\* Airflow runs a failed task again after retry_delay while it has retries
\* left; the task function starts from its first statement
TaskRetry ==
    /\ task = "failed"
    /\ run.stage # "none"
    /\ run.tries < RETRIES
    /\ task' = run.stage
    /\ run' = [FreshRun EXCEPT !.tries = run.tries + 1]
    /\ UNCHANGED <<jobs, sess, conf, dag_run, other, udp, assets, files, wol, xcom>>

\* the item of the loop, and the loop position after it
Item == run.ids[run.i]
InLoop(t) == task = t /\ run.pc = "loop" /\ run.i <= Len(run.ids)
LoopDone(t) == task = t /\ run.pc = "loop" /\ run.i > Len(run.ids)

\* the loop `continue`s or falls into `except`: failed += 1
ItemFailed(raised) ==
    run' = [run EXCEPT !.i = @ + 1, !.failed = @ + 1,
                       !.raised = IF raised THEN @ \cup {Item} ELSE @]

\* results.append(...) after the commit
ItemProcessed == run' = [run EXCEPT !.i = @ + 1, !.results = Append(@, Item)]

\* ------------------------------------------------------------ cosine stage
CosineTaskEmpty == TaskEmpty("cosine_match", "ingest", "reasoning_match")
CosineTaskPost == TaskPost("cosine_match", "ingest")
CosineTaskAbort == TaskAbort("cosine_match")

\* the `continue` of a job without description forgets failed += 1
CosineItemSkipUncounted ==
    /\ InLoop("cosine_match")
    /\ \/ NotFound(Item)
       \/ /\ ~NotFound(Item)
          /\ jobs[Item].job_description = None
    /\ run' = [run EXCEPT !.i = @ + 1]
    /\ UNCHANGED <<jobs, sess, conf, dag_run, other, udp, assets, files, wol, task, xcom>>

\* one iteration of cosine match_jobs: the job is missing or has no description
CosineItemSkip ==
    /\ InLoop("cosine_match")
    /\ \/ NotFound(Item)
       \/ /\ ~NotFound(Item)
          /\ jobs[Item].job_description = None
    /\ ItemFailed(FALSE)
    /\ UNCHANGED <<jobs, sess, conf, dag_run, other, udp, assets, files, wol, task, xcom>>

\* one iteration: embed or the commit raises, caught by the item's except
CosineItemRaise ==
    /\ InLoop("cosine_match")
    /\ ~NotFound(Item)
    /\ jobs[Item].job_description # None
    /\ ItemFailed(TRUE)
    /\ UNCHANGED <<jobs, sess, conf, dag_run, other, udp, assets, files, wol, task, xcom>>

\* the cosine matcher stores its score as the combined score as well
CosineItemScoreCombines ==
    /\ InLoop("cosine_match")
    /\ ~NotFound(Item)
    /\ jobs[Item].job_description # None
    /\ jobs' = [jobs EXCEPT ![Item].cosine_match_score =
                    Some(cosine_similarity(Val(jobs[Item].job_description))),
                            ![Item].combined_match_score =
                    Some(cosine_similarity(Val(jobs[Item].job_description)))]
    /\ ItemProcessed
    /\ UNCHANGED <<sess, conf, dag_run, other, udp, assets, files, wol, task, xcom>>

\* one iteration: the score is stored unrounded and committed
CosineItemScore ==
    /\ InLoop("cosine_match")
    /\ ~NotFound(Item)
    /\ jobs[Item].job_description # None
    /\ jobs' = [jobs EXCEPT ![Item].cosine_match_score =
                    Some(cosine_similarity(Val(jobs[Item].job_description)))]
    /\ ItemProcessed
    /\ UNCHANGED <<sess, conf, dag_run, other, udp, assets, files, wol, task, xcom>>

\* the cosine task hands over to combine_scores, past the reasoning task
CosineTaskEndSkipsReasoning ==
    /\ LoopDone("cosine_match")
    /\ xcom' = [xcom EXCEPT !["cosine_match"] = run.ids]
    /\ task' = "combine_scores"
    /\ run' = FreshRun
    /\ UNCHANGED <<jobs, sess, conf, dag_run, other, udp, assets, files, wol>>

\* the service answered: the task pushes the job_ids it pulled
CosineTaskEnd ==
    /\ LoopDone("cosine_match")
    /\ xcom' = [xcom EXCEPT !["cosine_match"] = run.ids]
    /\ task' = "reasoning_match"
    /\ run' = FreshRun
    /\ UNCHANGED <<jobs, sess, conf, dag_run, other, udp, assets, files, wol>>

\* ------------------------------------------------------------ wake_and_wait
\* is_reachable answered True: wake_and_wait returns True
ProbeSucceeded ==
    [wol EXCEPT !.probes = @ + 1, !.reachable = TRUE, !.pc = "done", !.result = "true"]

\* range(1, retries + 2): one attempt more than retries
ProbeFailedExtra ==
    IF wol.attempt <= wol.retries
    THEN [wol EXCEPT !.probes = @ + 1, !.reachable = FALSE, !.attempt = @ + 1, !.pc = "send"]
    ELSE [wol EXCEPT !.probes = @ + 1, !.reachable = FALSE, !.pc = "done", !.result = "false"]

\* is_reachable answered False: the next attempt of the for loop, or False
\* after the last
ProbeFailed ==
    IF wol.attempt < wol.retries
    THEN [wol EXCEPT !.probes = @ + 1, !.reachable = FALSE, !.attempt = @ + 1, !.pc = "send"]
    ELSE [wol EXCEPT !.probes = @ + 1, !.reachable = FALSE, !.pc = "done", !.result = "false"]

\* the first probe does not return: the wake loop runs even when online
WakeFirstProbeWakes ==
    /\ wol.pc = "probe"
    /\ wol.attempt = 0
    /\ \E reachable \in BOOLEAN :
         wol' = [ProbeFailed EXCEPT !.reachable = reachable]
    /\ UNCHANGED <<jobs, sess, conf, dag_run, other, udp, assets, files, task, xcom, run>>

\* the probe before the loop: already online returns True at once
WakeFirstProbe ==
    /\ wol.pc = "probe"
    /\ wol.attempt = 0
    /\ \E reachable \in BOOLEAN :
         wol' = IF reachable THEN ProbeSucceeded ELSE ProbeFailed
    /\ UNCHANGED <<jobs, sess, conf, dag_run, other, udp, assets, files, task, xcom, run>>

\* a failing send_magic_packet leaves wake_and_wait
WakeSendEscalates ==
    /\ wol.pc = "send"
    /\ \E sent \in {b \in BOOLEAN : b => MacIsValid(wol.mac)} :
         wol' = IF sent
                THEN [wol EXCEPT !.signals = @ + 1, !.pc = "sleep"]
                ELSE [wol EXCEPT !.signals = @ + 1, !.errors = @ + 1,
                                 !.pc = "done", !.result = "raised"]
    /\ UNCHANGED <<jobs, sess, conf, dag_run, other, udp, assets, files, task, xcom, run>>

\* send_magic_packet: ValueError for a malformed address, or a socket error,
\* is logged by the except of the attempt
WakeSend ==
    /\ wol.pc = "send"
    /\ \E sent \in {b \in BOOLEAN : b => MacIsValid(wol.mac)} :
         wol' = [wol EXCEPT !.signals = @ + 1,
                            !.errors = IF sent THEN @ ELSE @ + 1,
                            !.pc = "sleep"]
    /\ UNCHANGED <<jobs, sess, conf, dag_run, other, udp, assets, files, task, xcom, run>>

\* time.sleep(boot_wait)
WakeSleep ==
    /\ wol.pc = "sleep"
    /\ wol' = [wol EXCEPT !.waits = @ + 1, !.pc = "probe"]
    /\ UNCHANGED <<jobs, sess, conf, dag_run, other, udp, assets, files, task, xcom, run>>

\* the probe of an attempt keeps going after a success
WakeReprobeNoReturn ==
    /\ wol.pc = "probe"
    /\ wol.attempt >= 1
    /\ \E reachable \in BOOLEAN :
         wol' = [ProbeFailed EXCEPT !.reachable = reachable]
    /\ UNCHANGED <<jobs, sess, conf, dag_run, other, udp, assets, files, task, xcom, run>>

\* the probe of an attempt: True at the first success
WakeReprobe ==
    /\ wol.pc = "probe"
    /\ wol.attempt >= 1
    /\ \E reachable \in BOOLEAN :
         wol' = IF reachable THEN ProbeSucceeded ELSE ProbeFailed
    /\ UNCHANGED <<jobs, sess, conf, dag_run, other, udp, assets, files, task, xcom, run>>

\* match_jobs enters its loop without waiting for wake_and_wait
StartMatchJobsNoWait(ids, mac) ==
    /\ run' = [FreshRun EXCEPT !.pc = "loop",
                               !.ids = ids,
                               !.wakes = IF mac = None THEN 0 ELSE 1,
                               !.stage = "reasoning_match",
                               !.tries = run.tries]
    /\ wol' = IF mac = None THEN WolIdle ELSE WolCall(Val(mac), WOL_RETRIES)

\* match_jobs up to its loop: wake_and_wait once if a MAC address is
\* configured, else the node is assumed to be running
StartMatchJobs(ids, mac) ==
    /\ run' = [FreshRun EXCEPT !.pc = IF mac = None THEN "loop" ELSE "wake",
                               !.ids = ids,
                               !.wakes = IF mac = None THEN 0 ELSE 1,
                               !.stage = "reasoning_match",
                               !.tries = run.tries]
    /\ wol' = IF mac = None THEN WolIdle ELSE WolCall(Val(mac), WOL_RETRIES)

\* --------------------------------------------------------- reasoning stage
ReasonTaskEmpty == TaskEmpty("reasoning_match", "cosine_match", "combine_scores")

\* _post(REASONING_URL/reason): match_jobs starts
ReasonTaskPost ==
    /\ task = "reasoning_match"
    /\ run.pc = "start"
    /\ xcom["cosine_match"] # <<>>
    /\ \E mac \in ConfiguredMacs : StartMatchJobs(xcom["cosine_match"], mac)
    /\ UNCHANGED <<jobs, sess, conf, dag_run, other, udp, assets, files, task, xcom>>

\* the loop starts whatever wake_and_wait returned
ReasonOnlineAnyway ==
    /\ task = "reasoning_match"
    /\ run.pc = "wake"
    /\ wol.pc = "done"
    /\ run' = [run EXCEPT !.pc = "loop"]
    /\ wol' = WolReturned(wol.result)
    /\ UNCHANGED <<jobs, sess, conf, dag_run, other, udp, assets, files, task, xcom>>

\* wake_and_wait returned True: the loop starts
ReasonOnline ==
    /\ task = "reasoning_match"
    /\ run.pc = "wake"
    /\ wol.pc = "done"
    /\ wol.result = "true"
    /\ run' = [run EXCEPT !.pc = "loop"]
    /\ wol' = WolReturned("true")
    /\ UNCHANGED <<jobs, sess, conf, dag_run, other, udp, assets, files, task, xcom>>

\* the 503 answer re-raised like any other error of the request
ReasonUnavailableFails ==
    /\ task = "reasoning_match"
    /\ run.pc = "wake"
    /\ wol.pc = "done"
    /\ wol.result = "false"
    /\ task' = "failed"
    /\ wol' = WolReturned("false")
    /\ UNCHANGED <<jobs, sess, conf, dag_run, other, udp, assets, files, xcom, run>>

\* wake_and_wait returned False: RuntimeError, HTTP 503, which the task
\* logs; it pushes the job_ids it pulled
ReasonUnavailable ==
    /\ task = "reasoning_match"
    /\ run.pc = "wake"
    /\ wol.pc = "done"
    /\ wol.result = "false"
    /\ xcom' = [xcom EXCEPT !["reasoning_match"] = run.ids]
    /\ task' = "combine_scores"
    /\ run' = FreshRun
    /\ wol' = WolReturned("false")
    /\ UNCHANGED <<jobs, sess, conf, dag_run, other, udp, assets, files>>

\* any other failure of the request is re-raised by the task; the request
\* and the call of wake_and_wait behind it are gone
ReasonTaskAbort ==
    /\ task = "reasoning_match"
    /\ run.pc \in {"wake", "loop"}
    /\ task' = "failed"
    /\ run' = Raised
    /\ wol' = WolIdle
    /\ UNCHANGED <<jobs, sess, conf, dag_run, other, udp, assets, files, xcom>>

\* (job.cosine_match_score or 0)
ScoreOrZero(x) == IF x = None THEN 0 ELSE Val(x)

\* the filter with an exclusive threshold
BelowGateExclusive(job) == ScoreOrZero(job.cosine_match_score) <= MIN_COSINE_SCORE

\* the filter of reasoning match_jobs: cosine below MIN_COSINE_SCORE
BelowGate(job) == ScoreOrZero(job.cosine_match_score) < MIN_COSINE_SCORE

\* one iteration: the job did not pass the cosine filter, `continue`
ReasonItemSkip ==
    /\ InLoop("reasoning_match")
    /\ ~NotFound(Item)
    /\ BelowGate(jobs[Item])
    /\ run' = [run EXCEPT !.i = @ + 1, !.skipped = @ + 1]
    /\ UNCHANGED <<jobs, sess, conf, dag_run, other, udp, assets, files, wol, task, xcom>>

Eligible(job_id) ==
    /\ ~NotFound(job_id)
    /\ ~BelowGate(jobs[job_id])
    /\ jobs[job_id].job_description # None

\* the failing commit leaves the score behind without the explanation
ReasonItemFailedHalfWritten ==
    /\ InLoop("reasoning_match")
    /\ \/ /\ \/ NotFound(Item)
             \/ /\ ~NotFound(Item)
                /\ ~BelowGate(jobs[Item])
                /\ jobs[Item].job_description = None
          /\ ItemFailed(FALSE)
          /\ UNCHANGED jobs
       \/ /\ Eligible(Item)
          /\ ItemFailed(TRUE)
          /\ \E confidence \in Confidences :
               jobs' = [jobs EXCEPT ![Item].reasoning_match_score = Some(confidence)]
    /\ UNCHANGED <<sess, conf, dag_run, other, udp, assets, files, wol, task, xcom>>

\* one iteration that ends in failed += 1: the job is missing, it passed the
\* filter but has no description, or the LLM call, the explanation or the
\* commit raises into the item's except
ReasonItemFailed ==
    /\ InLoop("reasoning_match")
    /\ \/ /\ \/ NotFound(Item)
             \/ /\ ~NotFound(Item)
                /\ ~BelowGate(jobs[Item])
                /\ jobs[Item].job_description = None
          /\ ItemFailed(FALSE)
       \/ /\ Eligible(Item)
          /\ ItemFailed(TRUE)
    /\ UNCHANGED <<jobs, sess, conf, dag_run, other, udp, assets, files, wol, task, xcom>>

\* the node is woken again before the item is scored
ReasonItemScoreWakes ==
    /\ InLoop("reasoning_match")
    /\ Eligible(Item)
    /\ run.wakes >= 1
    /\ run' = [run EXCEPT !.pc = "wake", !.wakes = @ + 1]
    /\ wol' = WolCall(<<"aa", "bb", "cc", "dd", "ee", "ff">>, WOL_RETRIES)
    /\ UNCHANGED <<jobs, sess, conf, dag_run, other, udp, assets, files, task, xcom>>

\* one iteration: score and explanation are stored and committed
ReasonItemScore ==
    /\ InLoop("reasoning_match")
    /\ Eligible(Item)
    /\ \E confidence \in Confidences :
         jobs' = [jobs EXCEPT ![Item].reasoning_match_score = Some(confidence),
                              ![Item].reasoning_explanation = Some("explanation")]
    /\ ItemProcessed
    /\ UNCHANGED <<sess, conf, dag_run, other, udp, assets, files, wol, task, xcom>>

ReasonTaskEnd ==
    /\ LoopDone("reasoning_match")
    /\ xcom' = [xcom EXCEPT !["reasoning_match"] = run.ids]
    /\ task' = "combine_scores"
    /\ run' = FreshRun
    /\ UNCHANGED <<jobs, sess, conf, dag_run, other, udp, assets, files, wol>>

\* ------------------------------------------------------------ score combiner
\* n / d cut off instead of rounded
RoundTruncate(n, d) == n \div d

\* n / d rounded to the nearest integer, ties to the even one
RoundHalfEven(n, d) ==
    LET q == n \div d
        r == n % d
    IN IF 2 * r > d \/ (2 * r = d /\ q % 2 = 1) THEN q + 1 ELSE q

\* round(n / d, 4) of a score n / d in units of 10^-5
Round4(n, d) == 10 * RoundHalfEven(n, 10 * d)

\* the cosine-only branch without the rounding
CombinedUnrounded(cosine, reasoning) ==
    IF reasoning # None
    THEN Round4(COSINE_WEIGHT * cosine + REASONING_WEIGHT * Val(reasoning), 10)
    ELSE cosine

\* the combined score with the two weights exchanged
CombinedSwapped(cosine, reasoning) ==
    IF reasoning # None
    THEN Round4(REASONING_WEIGHT * cosine + COSINE_WEIGHT * Val(reasoning), 10)
    ELSE Round4(cosine, 1)

\* the combined score of combine_scores, weights in tenths
Combined(cosine, reasoning) ==
    IF reasoning # None
    THEN Round4(COSINE_WEIGHT * cosine + REASONING_WEIGHT * Val(reasoning), 10)
    ELSE Round4(cosine, 1)

CombineTaskEmpty == TaskEmpty("combine_scores", "reasoning_match", "generate")
CombineTaskCall == TaskPost("combine_scores", "reasoning_match")

\* a job without cosine score counted as failed instead of skipped
CombineItemSkipFailed ==
    /\ InLoop("combine_scores")
    /\ \/ NotFound(Item)
       \/ /\ ~NotFound(Item)
          /\ jobs[Item].cosine_match_score = None
    /\ ItemFailed(FALSE)
    /\ UNCHANGED <<jobs, sess, conf, dag_run, other, udp, assets, files, wol, task, xcom>>

\* an item is skipped whether or not the job has a cosine score
CombineItemSkipAny ==
    /\ InLoop("combine_scores")
    /\ run' = [run EXCEPT !.i = @ + 1, !.skipped = @ + 1]
    /\ UNCHANGED <<jobs, sess, conf, dag_run, other, udp, assets, files, wol, task, xcom>>

\* one iteration of combine_scores: job missing or without cosine score
CombineItemSkip ==
    /\ InLoop("combine_scores")
    /\ \/ NotFound(Item)
       \/ /\ ~NotFound(Item)
          /\ jobs[Item].cosine_match_score = None
    /\ run' = [run EXCEPT !.i = @ + 1, !.skipped = @ + 1]
    /\ UNCHANGED <<jobs, sess, conf, dag_run, other, udp, assets, files, wol, task, xcom>>

\* the update without the cosine check: a missing score counts as 0
CombineItemUpdateUnchecked ==
    /\ InLoop("combine_scores")
    /\ ~NotFound(Item)
    /\ jobs' = [jobs EXCEPT ![Item].combined_match_score =
                    Some(Combined(ScoreOrZero(jobs[Item].cosine_match_score),
                                  jobs[Item].reasoning_match_score))]
    /\ run' = [run EXCEPT !.i = @ + 1, !.results = Append(@, Item), !.updated = @ + 1]
    /\ UNCHANGED <<sess, conf, dag_run, other, udp, assets, files, wol, task, xcom>>

\* one iteration: combined_match_score is stored and committed
CombineItemUpdate ==
    /\ InLoop("combine_scores")
    /\ ~NotFound(Item)
    /\ jobs[Item].cosine_match_score # None
    /\ jobs' = [jobs EXCEPT ![Item].combined_match_score =
                    Some(Combined(Val(jobs[Item].cosine_match_score),
                                  jobs[Item].reasoning_match_score))]
    /\ run' = [run EXCEPT !.i = @ + 1, !.results = Append(@, Item), !.updated = @ + 1]
    /\ UNCHANGED <<sess, conf, dag_run, other, udp, assets, files, wol, task, xcom>>

\* one iteration: the query or the commit raises; the loop has no except,
\* the exception leaves combine_scores and the task
CombineItemRaise ==
    /\ InLoop("combine_scores")
    /\ run' = [run EXCEPT !.raised = @ \cup {Item}]
    /\ task' = "failed"
    /\ UNCHANGED <<jobs, sess, conf, dag_run, other, udp, assets, files, wol, xcom>>

\* scored_ids: the ids of result['results']
CombineTaskEnd ==
    /\ LoopDone("combine_scores")
    /\ xcom' = [xcom EXCEPT !["combine_scores"] = run.results]
    /\ task' = "generate"
    /\ run' = FreshRun
    /\ UNCHANGED <<jobs, sess, conf, dag_run, other, udp, assets, files, wol>>

\* ----------------------------------------------------------- generate stage
GenerateTaskEmpty == TaskEmpty("generate", "combine_scores", "curator_notify")

\* the filter with a strict comparison
QualifiesStrict(job_id, threshold) ==
    /\ ~NotFound(job_id)
    /\ jobs[job_id].combined_match_score # None
    /\ Val(jobs[job_id].combined_match_score) > threshold

\* the filter of generate_task
Qualifies(job_id, threshold) ==
    /\ ~NotFound(job_id)
    /\ jobs[job_id].combined_match_score # None
    /\ Val(jobs[job_id].combined_match_score) >= threshold

\* qualifying: the ids of the list that pass the filter, in order
RECURSIVE Qualifying(_, _)
Qualifying(ids, threshold) ==
    IF ids = <<>> THEN <<>>
    ELSE IF Qualifies(Head(ids), threshold)
         THEN <<Head(ids)>> \o Qualifying(Tail(ids), threshold)
         ELSE Qualifying(Tail(ids), threshold)

\* no job above the threshold: push [] and return
GenerateTaskNone ==
    /\ task = "generate"
    /\ run.pc = "start"
    /\ xcom["combine_scores"] # <<>>
    /\ Qualifying(xcom["combine_scores"], GENERATE_THRESHOLD) = <<>>
    /\ xcom' = [xcom EXCEPT !["generate"] = <<>>]
    /\ task' = "curator_notify"
    /\ UNCHANGED <<jobs, sess, conf, dag_run, other, udp, assets, files, wol, run>>

\* _post(GENERATOR_URL/generate) with the qualifying ids
GenerateTaskPost ==
    /\ task = "generate"
    /\ run.pc = "start"
    /\ xcom["combine_scores"] # <<>>
    /\ Qualifying(xcom["combine_scores"], GENERATE_THRESHOLD) # <<>>
    /\ run' = [run EXCEPT !.pc = "loop",
                          !.ids = Qualifying(xcom["combine_scores"], GENERATE_THRESHOLD),
                          !.stage = "generate"]
    /\ UNCHANGED <<jobs, sess, conf, dag_run, other, udp, assets, files, wol, task, xcom>>

GenerateTaskAbort == TaskAbort("generate")

\* one iteration of generate_applications that ends in failed += 1 before a
\* cover letter exists: the job is missing or has no description, or the
\* cover-letter call or the commit raises
GenerateItemFailed ==
    /\ InLoop("generate")
    /\ \/ /\ \/ NotFound(Item)
             \/ /\ ~NotFound(Item)
                /\ jobs[Item].job_description = None
          /\ ItemFailed(FALSE)
       \/ /\ ~NotFound(Item)
          /\ jobs[Item].job_description # None
          /\ ItemFailed(TRUE)
    /\ UNCHANGED <<jobs, sess, conf, dag_run, other, udp, assets, files, wol, task, xcom>>

\* a cover letter that is too short is counted as failed, and stored
GenerateItemDraftStoresShort ==
    /\ InLoop("generate")
    /\ ~NotFound(Item)
    /\ jobs[Item].job_description # None
    /\ \E length \in CoverLengths, cv_variant \in {None, Some("cv")} :
         IF length < MIN_COVER_LETTER
         THEN /\ ItemFailed(FALSE)
              /\ jobs' = [jobs EXCEPT ![Item].cover_letter_draft = Some(length)]
         ELSE /\ jobs' = [jobs EXCEPT ![Item].cover_letter_draft = Some(length),
                                      ![Item].cv_variant_generated = cv_variant,
                                      ![Item].status = "drafted"]
              /\ ItemProcessed
    /\ UNCHANGED <<sess, conf, dag_run, other, udp, assets, files, wol, task, xcom>>

\* the cover letter is stored whatever its length
GenerateItemDraftUnchecked ==
    /\ InLoop("generate")
    /\ ~NotFound(Item)
    /\ jobs[Item].job_description # None
    /\ \E length \in CoverLengths, cv_variant \in {None, Some("cv")} :
         jobs' = [jobs EXCEPT ![Item].cover_letter_draft = Some(length),
                              ![Item].cv_variant_generated = cv_variant,
                              ![Item].status = "drafted"]
    /\ ItemProcessed
    /\ UNCHANGED <<sess, conf, dag_run, other, udp, assets, files, wol, task, xcom>>

\* one iteration: the cover letter is checked, the drafts are stored
GenerateItemDraft ==
    /\ InLoop("generate")
    /\ ~NotFound(Item)
    /\ jobs[Item].job_description # None
    /\ \E length \in CoverLengths, cv_variant \in {None, Some("cv")} :
         IF length < MIN_COVER_LETTER
         THEN /\ ItemFailed(FALSE)
              /\ UNCHANGED jobs
         ELSE /\ jobs' = [jobs EXCEPT ![Item].cover_letter_draft = Some(length),
                                      ![Item].cv_variant_generated = cv_variant,
                                      ![Item].status = "drafted"]
              /\ ItemProcessed
    /\ UNCHANGED <<sess, conf, dag_run, other, udp, assets, files, wol, task, xcom>>

\* drafted_ids replaced by the ids the task sent
GenerateTaskEndAll ==
    /\ LoopDone("generate")
    /\ xcom' = [xcom EXCEPT !["generate"] = run.ids]
    /\ task' = "curator_notify"
    /\ run' = FreshRun
    /\ UNCHANGED <<jobs, sess, conf, dag_run, other, udp, assets, files, wol>>

\* drafted_ids: the ids of the results with status drafted
GenerateTaskEnd ==
    /\ LoopDone("generate")
    /\ xcom' = [xcom EXCEPT !["generate"] = run.results]
    /\ task' = "curator_notify"
    /\ run' = FreshRun
    /\ UNCHANGED <<jobs, sess, conf, dag_run, other, udp, assets, files, wol>>

\* ------------------------------------------------------------- notify stage
\* the outcome of curator_notify_task: no drafted ids, or the result of _post
NotifyOutcome(sent) ==
    IF xcom["generate"] = <<>> THEN "nothing"
    ELSE IF sent THEN "notified" ELSE "notify_failed"

\* the exception of the notification request leaves the task function
CuratorNotifyRaises ==
    /\ task = "curator_notify"
    /\ \E sent \in BOOLEAN :
          /\ run' = [FreshRun EXCEPT !.pc = NotifyOutcome(sent),
                                     !.stage = "curator_notify"]
          /\ task' = IF run'.pc = "notify_failed" THEN "failed" ELSE "done"
    /\ UNCHANGED <<jobs, sess, conf, dag_run, other, udp, assets, files, wol, xcom>>

\* requests.post without a timeout: the request to the curator never answers
CuratorNotifyHangs ==
    /\ task = "curator_notify"
    /\ UNCHANGED vars

\* curator_notify_task: nothing to send, or a request whose failure is logged
CuratorNotify ==
    /\ task = "curator_notify"
    /\ \E sent \in BOOLEAN :
          run' = [FreshRun EXCEPT !.pc = NotifyOutcome(sent),
                                 !.stage = "curator_notify"]
    /\ task' = "done"
    /\ UNCHANGED <<jobs, sess, conf, dag_run, other, udp, assets, files, wol, xcom>>

\* no DAG run: only the callers of /ingest act
InitIngest ==
    /\ InitStore
    /\ InitPipe
    /\ conf = <<>>

NextIngest ==
    \/ \E s \in Clients, url \in ClientUrls : ClientIngest(s, url)
    \/ \E s \in Clients : IngestFetch(s)
    \/ \E s \in Clients : IngestParseFailed(s)
    \/ \E s \in Clients : IngestMissingTitle(s)
    \/ \E s \in Clients : IngestInsert(s)

SpecIngest == InitIngest /\ [][NextIngest]_vars

\* ------------------------------------------------- the stages called directly
\* the URLs ingested when the stage services are called without the DAG
DirectUrls == {u \in ValidUrls : u.path \in {"close", "no_description"}}

\* the stages that take a list of job ids
StageNames == {"cosine_match", "reasoning_match", "combine_scores", "generate"}

\* the job_ids lists of a direct call: any ids, stored or not, repeated or not
DirectLists == SeqsUpTo(1..Cardinality(DirectUrls), MaxBatch) \ {<<>>}

\* POST /match, /reason or /generate, or a call of combine_scores, with any
\* non-empty list of ids
DirectCall(t, ids) ==
    /\ task \in {"idle", "failed"}
    /\ task' = t
    /\ IF t = "reasoning_match"
       THEN \E mac \in ConfiguredMacs : StartMatchJobs(ids, mac)
       ELSE /\ run' = [FreshRun EXCEPT !.pc = "loop", !.ids = ids, !.stage = t]
            /\ wol' = WolIdle
    /\ UNCHANGED <<jobs, sess, conf, dag_run, other, udp, assets, files, xcom>>

\* the stage answers with results, processed and failed
DirectReturn ==
    /\ task \in StageNames
    /\ LoopDone(task)
    /\ task' = "idle"
    /\ UNCHANGED <<jobs, sess, conf, dag_run, other, udp, assets, files, wol, xcom, run>>

\* the reasoning service answers 503: wake_and_wait returned False
DirectUnavailable ==
    /\ task = "reasoning_match"
    /\ run.pc = "wake"
    /\ wol.pc = "done"
    /\ wol.result = "false"
    /\ task' = "idle"
    /\ wol' = WolReturned("false")
    /\ UNCHANGED <<jobs, sess, conf, dag_run, other, udp, assets, files, xcom, run>>

InitDirect ==
    /\ InitStore
    /\ conf = <<>>
    /\ task = "idle"
    /\ xcom = NoXcom
    /\ run = FreshRun
    /\ wol = WolIdle
    /\ dag_run = 1
    /\ other = NoBatch
    /\ udp = NoPacket
    /\ assets = <<>>
    /\ files = NoFiles

NextDirect ==
    \/ \E url \in DirectUrls : ClientIngest(1, url)
    \/ IngestFetch(1)
    \/ IngestInsert(1)
    \/ \E t \in StageNames, ids \in DirectLists : DirectCall(t, ids)
    \/ DirectReturn
    \/ DirectUnavailable
    \/ WakeFirstProbe
    \/ WakeSend
    \/ WakeSleep
    \/ WakeReprobe
    \/ ReasonOnline
    \/ CosineItemSkip
    \/ CosineItemRaise
    \/ CosineItemScore
    \/ ReasonItemSkip
    \/ ReasonItemFailed
    \/ ReasonItemScore
    \/ CombineItemSkip
    \/ CombineItemUpdate
    \/ CombineItemRaise
    \/ GenerateItemFailed
    \/ GenerateItemDraft

SpecDirect == InitDirect /\ [][NextDirect]_vars

\* ------------------------------------------------ wake_and_wait called alone
\* one call of wake_and_wait with any address and any retries
InitWake ==
    /\ InitStore
    /\ conf = <<>>
    /\ task = "idle"
    /\ xcom = NoXcom
    /\ run = FreshRun
    /\ dag_run = 1
    /\ other = NoBatch
    /\ udp = NoPacket
    /\ assets = <<>>
    /\ files = NoFiles
    /\ wol \in {WolCall(mac, retries) : mac \in MacAddresses, retries \in 0..MaxRetries}

NextWake ==
    \/ WakeFirstProbe
    \/ WakeSend
    \/ WakeSleep
    \/ WakeReprobe

SpecWake == InitWake /\ [][NextWake]_vars

\* the call is not suspended for ever: each sleep and each probe ends
SpecWakeFair == SpecWake /\ WF_vars(NextWake)

\* ------------------------------------------- the generator and the curator
\* the review outside the pipeline: a drafted application is submitted, a
\* submitted one is rejected or leads to an offer
CuratorDecides(j) ==
    /\ j \in JobIds
    /\ \E status \in {"submitted", "rejected", "offered"} :
          /\ \/ jobs[j].status = "drafted" /\ status = "submitted"
             \/ jobs[j].status = "submitted" /\ status # "submitted"
          /\ jobs' = [jobs EXCEPT ![j].status = status]
    /\ UNCHANGED <<sess, conf, dag_run, other, udp, assets, files, wol, task, xcom, run>>

\* POST /generate with any non-empty list of ids while jobs are reviewed
NextGenerate ==
    \/ \E url \in DirectUrls : ClientIngest(1, url)
    \/ IngestFetch(1)
    \/ IngestInsert(1)
    \/ \E ids \in DirectLists : DirectCall("generate", ids)
    \/ GenerateItemFailed
    \/ GenerateItemDraft
    \/ DirectReturn
    \/ \E j \in 1..MaxBatch : CuratorDecides(j)

\* the generator service called directly, next to the curator
SpecGenerate == InitDirect /\ [][NextGenerate]_vars

\* ----------------------------------------------- the scheduler runs the DAG again
\* the pages of the batch that the scheduler submits again and again
RerunUrls == {u \in ValidUrls : u.path \in {"close", "far", "no_description"}}

\* the stage services can fail until the last of the counted runs
ServicesMayFail == dag_run < MaxRuns

\* the run is over: its last task returned, or a task failed on its last try
RunOver == task = "done" \/ (task = "failed" /\ run.tries = RETRIES)

\* the next DAG run on the same job_urls: new task instances, no XCom of the
\* run before; runs after the MaxRuns-th are counted as the MaxRuns-th
Rerun ==
    /\ RunOver
    /\ dag_run' = IF dag_run < MaxRuns THEN dag_run + 1 ELSE dag_run
    /\ task' = "ingest"
    /\ xcom' = NoXcom
    /\ run' = FreshRun
    /\ wol' = WolIdle
    /\ UNCHANGED <<jobs, sess, conf, other, udp, assets, files>>

InitRerun ==
    /\ InitStore
    /\ InitPipe
    /\ conf \in SeqsUpTo(RerunUrls, MaxBatch) \ {<<>>}

NextRerun ==
    \/ IngestTaskPost
    \/ IngestFetch(0)
    \/ IngestInsert(0)
    \/ IngestTaskCollect
    \/ IngestTaskEnd
    \/ CosineTaskEmpty
    \/ CosineTaskPost
    \/ ServicesMayFail /\ CosineTaskAbort
    \/ CosineItemSkip
    \/ ServicesMayFail /\ CosineItemRaise
    \/ CosineItemScore
    \/ CosineTaskEnd
    \/ ReasonTaskEmpty
    \/ ReasonTaskPost
    \/ WakeFirstProbe
    \/ WakeSend
    \/ WakeSleep
    \/ WakeReprobe
    \/ ReasonOnline
    \/ ReasonUnavailable
    \/ ServicesMayFail /\ ReasonTaskAbort
    \/ ReasonItemSkip
    \/ ServicesMayFail /\ ReasonItemFailed
    \/ ReasonItemScore
    \/ ReasonTaskEnd
    \/ CombineTaskEmpty
    \/ CombineTaskCall
    \/ CombineItemSkip
    \/ CombineItemUpdate
    \/ ServicesMayFail /\ CombineItemRaise
    \/ CombineTaskEnd
    \/ GenerateTaskEmpty
    \/ GenerateTaskNone
    \/ GenerateTaskPost
    \/ ServicesMayFail /\ GenerateTaskAbort
    \/ ServicesMayFail /\ GenerateItemFailed
    \/ GenerateItemDraft
    \/ GenerateTaskEnd
    \/ CuratorNotify
    \/ TaskRetry
    \/ Rerun

\* DAG runs on the same job_urls, one after the other
SpecRerun == InitRerun /\ [][NextRerun]_vars

\* no task and no run is suspended for ever
SpecRerunFair == SpecRerun /\ WF_vars(NextRerun)

\* one DAG run; the ingester serves the requests of the ingest task
Next ==
    \/ IngestTaskEmpty
    \/ IngestTaskPost
    \/ IngestFetch(0)
    \/ IngestParseFailed(0)
    \/ IngestMissingTitle(0)
    \/ IngestInsert(0)
    \/ IngestTaskCollect
    \/ IngestTaskEnd
    \/ CosineTaskEmpty
    \/ CosineTaskPost
    \/ CosineTaskAbort
    \/ CosineItemSkip
    \/ CosineItemRaise
    \/ CosineItemScore
    \/ CosineTaskEnd
    \/ ReasonTaskEmpty
    \/ ReasonTaskPost
    \/ WakeFirstProbe
    \/ WakeSend
    \/ WakeSleep
    \/ WakeReprobe
    \/ ReasonOnline
    \/ ReasonUnavailable
    \/ ReasonTaskAbort
    \/ ReasonItemSkip
    \/ ReasonItemFailed
    \/ ReasonItemScore
    \/ ReasonTaskEnd
    \/ CombineTaskEmpty
    \/ CombineTaskCall
    \/ CombineItemSkip
    \/ CombineItemUpdate
    \/ CombineItemRaise
    \/ CombineTaskEnd
    \/ GenerateTaskEmpty
    \/ GenerateTaskNone
    \/ GenerateTaskPost
    \/ GenerateTaskAbort
    \/ GenerateItemFailed
    \/ GenerateItemDraft
    \/ GenerateTaskEnd
    \/ CuratorNotify
    \/ TaskRetry

Spec == Init /\ [][Next]_vars

\* ------------------------------------------------------ send_magic_packet
\* a MAC address is a string: a sequence of characters.  The characters of
\* the addresses tried: hex digits, a blank, and a letter that is no hex digit
HexDigits == {"a", "1", "f"}
Whitespace == {" "}

\* the groups an address is written with, and what joins them
Groups == {<<"a", "1">>, <<"z", "z">>, <<" ", " ">>, <<"f">>}
Separators == {<<>>, <<":">>, <<"-">>}

RECURSIVE Join(_, _)
Join(groups, sep) ==
    IF groups = <<>> THEN <<>>
    ELSE IF Len(groups) = 1 THEN Head(groups)
    ELSE Head(groups) \o sep \o Join(Tail(groups), sep)

MacStrings == {Join(g, sep) : g \in SeqsUpTo(Groups, MaxGroups), sep \in Separators}

\* str.replace(c, '')
Replace(s, c) == SelectSeq(s, LAMBDA x : x # c)

\* bytes.fromhex: ASCII whitespace before a byte is skipped, then two hex
\* digits make one byte; anything else raises ValueError
RECURSIVE fromhex(_)
fromhex(s) ==
    IF s = <<>> THEN [raised |-> FALSE, bytes |-> <<>>]
    ELSE IF Head(s) \in Whitespace THEN fromhex(Tail(s))
    ELSE IF Len(s) >= 2 /\ s[1] \in HexDigits /\ s[2] \in HexDigits
         THEN LET rest == fromhex(SubSeq(s, 3, Len(s)))
              IN [raised |-> rest.raised,
                  bytes |-> IF rest.raised THEN <<>> ELSE <<<<s[1], s[2]>>>> \o rest.bytes]
         ELSE [raised |-> TRUE, bytes |-> <<>>]

\* b * n for a bytes value
Times(b, n) == [i \in 1..(n * Len(b)) |-> b[((i - 1) % Len(b)) + 1]]

\* send_magic_packet(mac_address): the call raises, or sends one datagram
send_magic_packet(mac_address) ==
    LET mac == Replace(Replace(mac_address, ":"), "-")
        raw == fromhex(mac)
        packet == Times(<<<<"f", "f">>>>, 6) \o Times(raw.bytes, 16)
    IN IF Len(mac) # 12 \/ raw.raised
       THEN [pc |-> "ValueError", mac_address |-> mac_address, sent |-> <<>>]
       ELSE [pc |-> "returned", mac_address |-> mac_address,
             sent |-> <<[payload |-> packet, SO_BROADCAST |-> TRUE,
                         host |-> "<broadcast>", port |-> 9]>>]

SendMagicPacket ==
    /\ udp.pc = "call"
    /\ udp' = send_magic_packet(udp.mac_address)
    /\ UNCHANGED <<jobs, sess, conf, task, xcom, run, wol, dag_run, other, assets, files>>

InitPacket ==
    /\ InitStore
    /\ conf = <<>>
    /\ task = "idle"
    /\ xcom = NoXcom
    /\ run = FreshRun
    /\ wol = WolIdle
    /\ dag_run = 1
    /\ other = NoBatch
    /\ \E m \in MacStrings : udp = [pc |-> "call", mac_address |-> m, sent |-> <<>>]
    /\ assets = <<>>
    /\ files = NoFiles

NextPacket == SendMagicPacket

SpecPacket == InitPacket /\ [][NextPacket]_vars

\* ------------------------------------------------------------ load_assets
\* the texts a file of the assets/ directory can hold
Contents == {"text_a", "text_b"}

\* ProfessionalAsset(asset_type, content, version, is_active)
ProfessionalAsset(asset_type, content, version, is_active) ==
    [asset_type |-> asset_type, content |-> content, version |-> version,
     is_active |-> is_active]

\* db.query(ProfessionalAsset).filter_by(asset_type=asset_type, is_active=True)
ActiveRows(table, asset_type) ==
    {i \in 1..Len(table) : table[i].asset_type = asset_type /\ table[i].is_active}

\* the old row stays active next to the new one
UpsertKeepsOldActive(table, asset_type) ==
    IF files[asset_type] = None THEN table
    ELSE LET content == Val(files[asset_type])
             active == ActiveRows(table, asset_type)
         IN IF active = {}
            THEN Append(table, ProfessionalAsset(asset_type, content, 1, TRUE))
            ELSE LET existing == CHOOSE i \in active : TRUE
                 IN IF table[existing].content = content THEN table
                    ELSE Append(table,
                                ProfessionalAsset(asset_type, content,
                                                  table[existing].version + 1, TRUE))

\* one iteration of the loop of load_assets: the file is missing, the active
\* row has the content of the file, or the active row is deactivated and a row
\* of the next version is added
Upsert(table, asset_type) ==
    IF files[asset_type] = None THEN table
    ELSE LET content == Val(files[asset_type])
             active == ActiveRows(table, asset_type)
         IN IF active = {}
            THEN Append(table, ProfessionalAsset(asset_type, content, 1, TRUE))
            ELSE LET existing == CHOOSE i \in active : TRUE
                 IN IF table[existing].content = content THEN table
                    ELSE Append([table EXCEPT ![existing].is_active = FALSE],
                                ProfessionalAsset(asset_type, content,
                                                  table[existing].version + 1, TRUE))

\* the loop over ASSET_FILES from its k-th entry on
RECURSIVE UpsertFrom(_, _)
UpsertFrom(table, k) ==
    IF k > Len(ASSET_FILES) THEN table
    ELSE UpsertFrom(Upsert(table, ASSET_FILES[k]), k + 1)

\* one run of load_assets: the loop, then the one commit; runs are counted
\* up to version MaxVersion
LoadAssets ==
    /\ \A i \in 1..Len(assets) : assets[i].version < MaxVersion
    /\ assets' = UpsertFrom(assets, 1)
    /\ UNCHANGED <<jobs, sess, conf, task, xcom, run, wol, dag_run, other, udp, files>>

\* the user writes, changes or removes a file of the assets/ directory
EditFile(asset_type, content) ==
    /\ files[asset_type] # content
    /\ files' = [files EXCEPT ![asset_type] = content]
    /\ UNCHANGED <<jobs, sess, conf, task, xcom, run, wol, dag_run, other, udp, assets>>

\* the stores load_assets starts from: up to two rows, at most one active
\* row of each asset_type
StoredRows ==
    {ProfessionalAsset(t, c, v, a) :
        t \in AssetTypes, c \in Contents, v \in 1..(MaxVersion - 1), a \in BOOLEAN}
InitialTables ==
    {table \in SeqsUpTo(StoredRows, 2) :
        \A t \in AssetTypes : Cardinality(ActiveRows(table, t)) <= 1}

InitAssets ==
    /\ InitStore
    /\ conf = <<>>
    /\ task = "idle"
    /\ xcom = NoXcom
    /\ run = FreshRun
    /\ wol = WolIdle
    /\ dag_run = 1
    /\ other = NoBatch
    /\ udp = NoPacket
    /\ assets \in InitialTables
    /\ files \in [AssetTypes -> {None} \cup {Some(c) : c \in Contents}]

NextAssets ==
    \/ LoadAssets
    \/ \E t \in AssetTypes, content \in {None} \cup {Some(c) : c \in Contents} :
          EditFile(t, content)

SpecAssets == InitAssets /\ [][NextAssets]_vars

\* -------------------------------------------------- one DAG run to its end
\* the run is scheduled until it is over: every call of a task returns or
\* raises within its timeout, and Airflow runs the next task or the retry
BatchUrls == {u \in ValidUrls : u.path \in {"close", "no_description", "no_title", "garbled"}}

InitBatch ==
    /\ InitStore
    /\ InitPipe
    /\ conf \in SeqsUpTo(BatchUrls, MaxBatch)

SpecBatchFair == InitBatch /\ [][Next]_vars /\ WF_vars(Next)

\* ----------------------------------------------------- two DAG runs at once
\* the DAG sets no max_active_runs: a manual trigger can run while the
\* scheduled run is in flight.  The second run is on no URL or on one URL of
\* its own
PairUrls == {u \in ValidUrls : u.path \in {"below_gate", "no_description",
                                           "no_title", "garbled"}}
PairConfs == {<<>>} \cup {<<u>> : u \in PairUrls}

\* the first run is on a posting that passes every stage
FirstConf == <<[scheme |-> "https", netloc |-> "jobs.example", path |-> "close"]>>

\* XCom keyed by task only: the other run pulls the job_ids this run pushed
SwitchSharesXcom ==
    /\ conf' = other.conf
    /\ task' = other.task
    /\ xcom' = xcom
    /\ run' = other.run
    /\ wol' = other.wol
    /\ other' = Batch(conf, task, other.xcom, run, wol)
    /\ sess' = [sess EXCEPT ![0] = sess[1], ![1] = sess[0]]
    /\ UNCHANGED <<jobs, dag_run, udp, assets, files>>

\* the scheduler runs a step of the other DAG run next; each run has its own
\* request to the ingester in flight (callers 0 and 1)
Switch ==
    /\ conf' = other.conf
    /\ task' = other.task
    /\ xcom' = other.xcom
    /\ run' = other.run
    /\ wol' = other.wol
    /\ other' = Batch(conf, task, xcom, run, wol)
    /\ sess' = [sess EXCEPT ![0] = sess[1], ![1] = sess[0]]
    /\ UNCHANGED <<jobs, dag_run, udp, assets, files>>

InitPair ==
    /\ InitStore
    /\ conf = FirstConf
    /\ task = "ingest"
    /\ xcom = NoXcom
    /\ run = FreshRun
    /\ wol = WolIdle
    /\ dag_run = 1
    /\ \E c \in PairConfs : other = Batch(c, "ingest", NoXcom, FreshRun, WolIdle)
    /\ udp = NoPacket
    /\ assets = <<>>
    /\ files = NoFiles

NextPair ==
    \/ Next
    \/ Switch

SpecPair == InitPair /\ [][NextPair]_vars

\* ================================================================== claims
\* ---- ingestion guard (checked under SpecIngest)

\* the rows of the store that carry a url
RowsOf(url) == {i \in 1..Len(jobs) : jobs[i].job_url = url}

SameUrl(s1, s2) == sess[s1].url # None /\ sess[s1].url = sess[s2].url

\* a step in which caller s starts ingest_job on a valid url that has a record
C1_SecondCall(s) ==
    /\ sess[s].pc = "idle"
    /\ sess'[s] # sess[s]
    /\ url_is_valid(Val(sess'[s].url))
    /\ RowsOf(Val(sess'[s].url)) # {}

C1_Step ==
    \A s \in Sessions :
        C1_SecondCall(s) =>
            /\ sess'[s].pc = "idle"
            /\ sess'[s].outcome = "DuplicateJobError"
            /\ sess'[s].job_id \in RowsOf(Val(sess'[s].url))
            /\ sess'[s].added = 0
            /\ jobs' = jobs

C1_Inv ==
    /\ \A s \in Sessions :
          sess[s].outcome = "ok" =>
              /\ sess[s].job_id \in 1..Len(jobs)
              /\ RowsOf(Val(sess[s].url)) = {sess[s].job_id}
    /\ \A s1, s2 \in Sessions :
          (sess[s1].outcome = "ok" /\ sess[s2].outcome = "DuplicateJobError" /\ SameUrl(s1, s2))
              => (sess[s2].job_id = sess[s1].job_id /\ sess[s2].added = 0)

\* C1: idempotent ingestion.  A call of ingest_job that returns a job leaves
\* exactly one record with its url, the returned one; every call that starts
\* on a valid url which already has a record changes no record and ends in
\* DuplicateJobError whose job_id is the id of that record.
C1_IdempotentIngestion == []C1_Inv /\ [][C1_Step]_vars

\* one caller got the record, a later call for the same url got the
\* DuplicateJobError that names it
C1_Witness ==
    \E s1, s2 \in Sessions :
        /\ sess[s1].outcome = "ok"
        /\ sess[s2].outcome = "DuplicateJobError"
        /\ SameUrl(s1, s2)
        /\ sess[s2].job_id = sess[s1].job_id

\* C2: two concurrent admissions of one url cannot both succeed.  The store
\* never holds two rows with the same job_url, and never have two calls
\* both returned a job for the same url.
C2_AtMostOnePerUrl ==
    /\ \A i, j \in 1..Len(jobs) : jobs[i].job_url = jobs[j].job_url => i = j
    /\ \A s1, s2 \in Sessions :
          (sess[s1].outcome = "ok" /\ sess[s2].outcome = "ok" /\ SameUrl(s1, s2)) => s1 = s2

\* two calls passed the existence check for the same url; one inserted, the
\* commit of the other was rejected by the unique constraint
C2_Witness ==
    \E s1, s2 \in Sessions :
        /\ sess[s1].outcome = "ok"
        /\ sess[s2].outcome = "IntegrityError"
        /\ SameUrl(s1, s2)

C3_Step ==
    \A s \in Sessions :
        sess'[s] # sess[s] =>
            IF jobs' # jobs
            THEN LET id == Len(jobs) + 1
                     url == Val(sess'[s].url)
                 IN /\ jobs' = Append(jobs, jobs'[id])
                    /\ jobs'[id].id = id
                    /\ jobs'[id].job_url = url
                    /\ jobs'[id].status = "discovered"
                    /\ sess'[s].added = id
                    /\ \/ /\ sess'[s].outcome = "ok"
                          /\ sess'[s].job_id = id
                          /\ jobs'[id].job_title # "[parse failed]"
                       \/ /\ sess'[s].outcome = "ParseError"
                          /\ ParsePosting(url).raised
                          /\ jobs'[id].job_title = "[parse failed]"
            ELSE sess'[s].outcome # "ok" /\ sess'[s].added = 0

Abs(x) == IF x < 0 THEN -x ELSE x

\* k (units of 10^-5) is n / d rounded to 4 decimal digits: a multiple of
\* 10^-4 at distance at most half of 10^-4, the even one on a tie
IsRounded4(n, d, k) ==
    /\ k % 10 = 0
    /\ 2 * Abs(k * d - n) <= 10 * d
    /\ 2 * Abs(k * d - n) = 10 * d => (k \div 10) % 2 = 0

Range(q) == {q[k] : k \in 1..Len(q)}

\* C4: combiner correctness.  Every stored combined_match_score is
\* round(0.3 * cosine + 0.7 * reasoning, 4) when the job has a reasoning
\* score, and round(cosine, 4) when it has none.
C4_CombinerCorrect ==
    \A j \in 1..Len(jobs) :
        jobs[j].combined_match_score # None =>
            /\ jobs[j].cosine_match_score # None
            /\ LET c == Val(jobs[j].cosine_match_score)
                   k == Val(jobs[j].combined_match_score)
               IN IF jobs[j].reasoning_match_score # None
                  THEN IsRounded4(3 * c + 7 * Val(jobs[j].reasoning_match_score), 10, k)
                  ELSE IsRounded4(c, 1, k)

\* both branches have stored a score that the rounding changed
C4_Witness ==
    \E j1, j2 \in 1..Len(jobs) :
        /\ jobs[j1].reasoning_match_score # None
        /\ jobs[j1].combined_match_score # None
        /\ (3 * Val(jobs[j1].cosine_match_score) + 7 * Val(jobs[j1].reasoning_match_score)) % 100 > 50
        /\ jobs[j2].reasoning_match_score = None
        /\ jobs[j2].combined_match_score # None
        /\ jobs[j2].combined_match_score # jobs[j2].cosine_match_score

HasCosine(j) == j \in 1..Len(jobs) /\ jobs[j].cosine_match_score # None

\* what combine_scores has reported after i - 1 items of its list
C5_Report ==
    (task = "combine_scores" /\ run.pc = "loop") =>
        LET seen == SubSeq(run.ids, 1, run.i - 1)
        IN /\ run.results = SelectSeq(seen, HasCosine)
           /\ run.updated = Len(run.results)
           /\ run.updated + run.skipped = Len(seen)
           /\ run.failed = 0
           /\ \A j \in Range(run.results) : jobs[j].combined_match_score # None

\* one iteration of combine_scores: an id that exists and has a cosine score
\* gets a combined score and is appended to results, any other id is counted
\* as skipped and no record changes
C5_Step ==
    (task = "combine_scores" /\ run.pc = "loop" /\ run'.i = run.i + 1) =>
        LET j == run.ids[run.i]
        IN IF HasCosine(j)
           THEN /\ jobs'[j].combined_match_score # None
                /\ jobs' = [jobs EXCEPT ![j].combined_match_score = jobs'[j].combined_match_score]
                /\ run'.results = Append(run.results, j)
                /\ run'.skipped = run.skipped
           ELSE /\ jobs' = jobs
                /\ run'.results = run.results
                /\ run'.skipped = run.skipped + 1

\* C5: batch combine contract.  For any list of ids, stored or not, each
\* iteration updates combined_match_score of its id alone when the id exists
\* and has a cosine score and otherwise changes nothing and counts the id as
\* skipped (never as failed); after each item, and so when the loop is
\* over, 'results' is the list of the ids handled that exist and have a
\* cosine score and updated + skipped is the number of ids handled.
C5_BatchContract == []C5_Report /\ [][C5_Step]_vars

\* combine_scores finished a list with an updated id and an id that is not
\* in the store
C5_Witness ==
    /\ LoopDone("combine_scores")
    /\ run.updated >= 1
    /\ run.skipped >= 1
    /\ \E k \in 1..Len(run.ids) : run.ids[k] \notin 1..Len(jobs)
    /\ run.updated + run.skipped = Len(run.ids)

\* C6 as stated: in every reachable state a job has combined_match_score
\* if and only if it has cosine_match_score.
C6_CombinedIffCosine ==
    \A j \in 1..Len(jobs) :
        jobs[j].combined_match_score # None <=> jobs[j].cosine_match_score # None

\* C6 amended: a job with combined_match_score has cosine_match_score in
\* every reachable state; the converse holds for the ids of a batch once
\* its combine stage has returned.
C6_CombinedOnlyWithCosine ==
    /\ \A j \in 1..Len(jobs) :
          jobs[j].combined_match_score # None => jobs[j].cosine_match_score # None
    /\ task \in {"generate", "curator_notify", "done"} =>
          \A j \in Range(xcom["reasoning_match"]) :
              jobs[j].combined_match_score # None <=> jobs[j].cosine_match_score # None

\* the combine stage returned for a batch with a scored and an unscored job
C6_Witness ==
    /\ task = "generate"
    /\ \E j1, j2 \in Range(xcom["reasoning_match"]) :
          /\ jobs[j1].combined_match_score # None
          /\ jobs[j2].cosine_match_score = None
          /\ jobs[j2].combined_match_score = None

\* ---- gating

\* the job passes the reasoning filter: a cosine score of at least 0.6
PassesGate(j) ==
    /\ HasCosine(j)
    /\ Val(jobs[j].cosine_match_score) >= 60000

C7_Inv ==
    /\ \A j \in 1..Len(jobs) : ~PassesGate(j) => jobs[j].reasoning_match_score = None
    /\ (task = "combine_scores" /\ run.pc = "loop") => run.ids = xcom["cosine_match"]

\* one iteration of the reasoning loop, and the end of the reasoning task
C7_Step ==
    /\ (task = "reasoning_match" /\ run.pc = "loop" /\ run'.i = run.i + 1) =>
          LET j == run.ids[run.i]
          IN IF PassesGate(j)
             THEN /\ run'.skipped = run.skipped
                  /\ \/ /\ jobs'[j].reasoning_match_score # None
                        /\ run'.results = Append(run.results, j)
                     \/ /\ run'.failed = run.failed + 1
                        /\ j \in run'.raised
             ELSE j \in 1..Len(jobs) =>
                      /\ run'.skipped = run.skipped + 1
                      /\ run'.failed = run.failed
                      /\ run'.raised = run.raised
                      /\ jobs' = jobs
    /\ (task = "reasoning_match" /\ task' = "combine_scores") =>
          xcom'["reasoning_match"] = xcom["cosine_match"]

Combine_Returned == task \in {"generate", "curator_notify", "done"}

C8_Gate ==
    \A j \in 1..Len(jobs) : jobs[j].reasoning_match_score # None => PassesGate(j)

\* C8 as stated: a job with reasoning_match_score has cosine_match_score >=
\* 0.6; a job whose cosine score is below 0.6 has no reasoning score and
\* gets combined_match_score equal to its cosine score.
C8_CombinedEqualsCosine ==
    /\ C8_Gate
    /\ \A j \in 1..Len(jobs) :
          (HasCosine(j) /\ ~PassesGate(j)) =>
              /\ jobs[j].reasoning_match_score = None
              /\ (Combine_Returned /\ j \in Range(xcom["reasoning_match"]))
                     => jobs[j].combined_match_score # None
              /\ jobs[j].combined_match_score # None
                     => jobs[j].combined_match_score = jobs[j].cosine_match_score

\* C8 amended: a job with reasoning_match_score has cosine_match_score >=
\* 0.6; a job whose cosine score is below 0.6 has no reasoning score and
\* gets combined_match_score equal to its cosine score rounded to 4
\* decimal digits.
C8_CombinedIsRoundedCosine ==
    /\ C8_Gate
    /\ \A j \in 1..Len(jobs) :
          (HasCosine(j) /\ ~PassesGate(j)) =>
              /\ jobs[j].reasoning_match_score = None
              /\ (Combine_Returned /\ j \in Range(xcom["reasoning_match"]))
                     => jobs[j].combined_match_score # None
              /\ jobs[j].combined_match_score # None
                     => IsRounded4(Val(jobs[j].cosine_match_score), 1,
                                   Val(jobs[j].combined_match_score))

\* a job below the gate got a combined score that differs from its cosine
\* score, and a job was reasoned about
C8_Witness ==
    /\ Combine_Returned
    /\ \E j \in 1..Len(jobs) :
          /\ HasCosine(j)
          /\ ~PassesGate(j)
          /\ jobs[j].combined_match_score # None
          /\ jobs[j].combined_match_score # jobs[j].cosine_match_score
    /\ \E j \in 1..Len(jobs) : jobs[j].reasoning_match_score # None

\* the job exists and its combined score is at least generate_threshold (0.5)
AtThreshold(j) ==
    /\ j \in 1..Len(jobs)
    /\ jobs[j].combined_match_score # None
    /\ Val(jobs[j].combined_match_score) >= 50000

C9_Inv ==
    /\ (task = "generate" /\ run.pc = "loop") =>
          run.ids = SelectSeq(xcom["combine_scores"], AtThreshold)
    /\ \A j \in 1..Len(jobs) : jobs[j].status = "drafted" => AtThreshold(j)

\* the filter of generate_task is no error: the task goes on to the
\* generator, or to the notification when no id qualifies
C9_Step ==
    (task = "generate" /\ run.pc = "start" /\ task' # task) =>
        /\ task' = "curator_notify"
        /\ xcom'["generate"] = <<>>
        /\ \A j \in Range(xcom["combine_scores"]) : ~AtThreshold(j)

\* C9: the generation gate is inclusive at the threshold.  The ids
\* generate_task sends to the generator are exactly the ids of its input
\* that exist and have combined_match_score >= generate_threshold; the
\* others are dropped without failing the task, and only a job with
\* combined_match_score >= generate_threshold is ever drafted.
C9_GenerateGate == []C9_Inv /\ [][C9_Step]_vars

\* the generator was sent a job scored exactly at the threshold while
\* another job of the batch was dropped
C9_Witness ==
    /\ task = "generate"
    /\ run.pc = "loop"
    /\ \E j \in Range(run.ids) : jobs[j].combined_match_score = Some(50000)
    /\ \E j \in Range(xcom["combine_scores"]) : j \notin Range(run.ids)

\* ---- stage isolation

\* a step in which the processing of an item raises an internal error
ItemRaises == \E j \in run'.raised : j \notin run.raised

C10_Step ==
    /\ ItemRaises =>
          /\ task' = task
          /\ run'.failed = run.failed + 1
          /\ run'.i = run.i + 1
    /\ task = "ingest" => task' # "failed"

\* C10: stage isolation.  In every stage, when the processing of one id
\* raises an internal error the id is counted as failed, the loop goes on
\* to the next id and no exception leaves the stage call.
C10_StageIsolation == [][C10_Step]_vars

\* ---- surviving sets

\* the ids a stage loop went through without a result
NoResult == Range(run.ids) \ Range(run.results)

\* the ids the stage counted in `failed`: in the reasoning stage an id left
\* out by the cosine filter is skipped, not failed
FailedIds ==
    IF task = "reasoning_match"
    THEN {j \in NoResult : j \notin 1..Len(jobs) \/ PassesGate(j)}
    ELSE NoResult

\* the step in which the task of a list stage pushes its job_ids
StageEnds ==
    /\ task \in {"cosine_match", "reasoning_match", "generate"}
    /\ run.pc = "loop"
    /\ run.i > Len(run.ids)
    /\ task' \notin {task, "failed"}

\* C11 as stated: the id list a cosine, reasoning or generate task pushes
\* downstream contains no id that the stage reported as failed, and the
\* failed count records each of them.
C11_FailedDropped ==
    [][StageEnds => /\ Range(xcom'[task]) \cap FailedIds = {}
                    /\ run.failed = Cardinality(FailedIds)]_vars

\* C11 amended: every failed id is counted in the stage's failed count; the
\* generate task pushes only the drafted ids, so none of its failed ids goes
\* downstream, while the cosine and reasoning tasks push the id list they
\* pulled unchanged, failed ids included.
C11_FailedCounted ==
    [][StageEnds => /\ run.failed = Cardinality(FailedIds)
                    /\ IF task = "generate"
                       THEN /\ xcom'[task] = run.results
                            /\ Range(xcom'[task]) \cap FailedIds = {}
                       ELSE xcom'[task] = run.ids]_vars

\* a job that failed in the cosine stage was passed to the reasoning stage,
\* and a job that failed in the generate stage was not passed to the curator
C11_Witness ==
    /\ task = "curator_notify"
    /\ \E j \in Range(xcom["reasoning_match"]) : jobs[j].cosine_match_score = None
    /\ \E j \in Range(xcom["combine_scores"]) :
          AtThreshold(j) /\ j \notin Range(xcom["generate"])

\* ---- remote-unavailable fallback

\* wake_and_wait has returned False to the reasoning service
WakeGaveUp == wol.pc = "done" /\ wol.result = "false"

\* the reasoning stage of this run ended on the 503 answer
ReasoningWasSkipped == wol.pc = "idle" /\ wol.result = "false"

\* the step in which the service answers that the node is unreachable:
\* nothing was looped over, the task does not fail and pushes the ids it
\* pulled; on the first try of the task no job of the batch has a reasoning
\* score
C12_Step ==
    (task = "reasoning_match" /\ WakeGaveUp /\ wol' = WolReturned("false")) =>
        /\ task' = "combine_scores"
        /\ xcom'["reasoning_match"] = xcom["cosine_match"]
        /\ run.i = 1
        /\ run.failed = 0
        /\ jobs' = jobs
        /\ run.tries = 0 =>
              \A j \in Range(run.ids) : jobs'[j].reasoning_match_score = None

\* the batch has no reasoning score once the stage was skipped
C12_NoReasoning ==
    ReasoningWasSkipped =>
        \A j \in Range(xcom["reasoning_match"]) : jobs[j].reasoning_match_score = None

\* the jobs of the batch that the reasoning stage never scored
Unreasoned(j) == HasCosine(j) /\ jobs[j].reasoning_match_score = None

\* C12 as stated: when the probe never succeeds the reasoning stage is
\* skipped for the whole batch without failing the pipeline, every id
\* reaches Combine with reasoning_match_score undefined and each job with a
\* cosine score ends with combined_match_score equal to its cosine score.
C12_FallbackEqualsCosine ==
    /\ C12_NoReasoning
    /\ (ReasoningWasSkipped /\ Combine_Returned) =>
          \A j \in Range(xcom["reasoning_match"]) :
              HasCosine(j) => jobs[j].combined_match_score = jobs[j].cosine_match_score

C12_Inv ==
    (ReasoningWasSkipped /\ Combine_Returned) =>
          \A j \in Range(xcom["reasoning_match"]) :
              Unreasoned(j) =>
                  /\ jobs[j].combined_match_score # None
                  /\ IsRounded4(Val(jobs[j].cosine_match_score), 1,
                                Val(jobs[j].combined_match_score))

\* C12 amended: when wake_and_wait returns False the reasoning task does not
\* fail, loops over no item, writes no job and pushes the id list it pulled;
\* on the first try of the task no job of the batch has a reasoning score,
\* and once combine_scores has returned each job of the batch with a cosine
\* score and no reasoning score has combined_match_score equal to its cosine
\* score rounded to 4 decimal digits.
C12_FallbackRoundedCosine == []C12_Inv /\ [][C12_Step]_vars

\* after a skipped reasoning stage a job above the cosine gate was combined
\* from its cosine score alone, and another one got a rounded score
C12_Witness ==
    /\ ReasoningWasSkipped
    /\ Combine_Returned
    /\ \E j \in Range(xcom["reasoning_match"]) :
          /\ PassesGate(j)
          /\ jobs[j].reasoning_match_score = None
          /\ jobs[j].combined_match_score = jobs[j].cosine_match_score
    /\ \E j \in Range(xcom["reasoning_match"]) :
          /\ HasCosine(j)
          /\ jobs[j].combined_match_score # jobs[j].cosine_match_score

\* ---- the reasoning service while the node is being woken

\* a step of the reasoning service before wake_and_wait has been answered:
\* no stored row changes and nothing is counted; after False the loop over
\* the job ids never starts
C13_Step ==
    (task = "reasoning_match" /\ run.pc = "wake") =>
        /\ \A j \in 1..Len(jobs) : jobs'[j] = jobs[j]
        /\ run'.failed = 0
        /\ run'.results = <<>>
        /\ WakeGaveUp => run'.pc # "loop"

\* C13: when wake_and_wait returns false the reasoning stage modifies no job
\* record: every job of the batch keeps the field values it had before the
\* stage was invoked, and no job is counted as failed.
C13_UnavailableTouchesNothing == [][C13_Step]_vars

\* the service answered 503 for a batch holding a job that an earlier call
\* had scored; the job still has that score
C13_Witness ==
    /\ task = "idle"
    /\ ReasoningWasSkipped
    /\ run.failed = 0
    /\ \E j \in Range(run.ids) :
          j \in 1..Len(jobs) /\ jobs[j].reasoning_match_score # None

\* ---- wake_and_wait (checked under SpecWake)

\* C14: fast path.  If the first reachability probe of wake_and_wait
\* succeeds it returns true at once, having sent no wake signal and waited
\* no boot_wait period.
C14_FastPath ==
    [][(wol.pc = "probe" /\ wol.attempt = 0 /\ wol'.reachable) =>
          /\ wol'.pc = "done"
          /\ wol'.result = "true"
          /\ wol'.probes = 1
          /\ wol'.signals = 0
          /\ wol'.waits = 0]_vars

\* a call with retries left returned true after its first probe
C14_Witness ==
    /\ wol.pc = "done"
    /\ wol.result = "true"
    /\ wol.probes = 1
    /\ wol.retries >= 1
    /\ wol.signals = 0

\* where the call stands in attempt k: k signals after the send, k waits
\* after the sleep, k + 1 probes after the re-probe
C15_Inv ==
    /\ wol.attempt <= wol.retries
    /\ wol.pc = "send" =>
          /\ wol.attempt >= 1
          /\ wol.signals = wol.attempt - 1
          /\ wol.waits = wol.attempt - 1
          /\ wol.probes = wol.attempt
    /\ wol.pc = "sleep" =>
          /\ wol.signals = wol.attempt
          /\ wol.waits = wol.attempt - 1
          /\ wol.probes = wol.attempt
    /\ wol.pc = "probe" =>
          /\ wol.signals = wol.attempt
          /\ wol.waits = wol.attempt
          /\ wol.probes = wol.attempt
    /\ (wol.pc = "done" /\ wol.result = "true") =>
          /\ wol.reachable
          /\ wol.signals = wol.attempt
          /\ wol.waits = wol.attempt
          /\ wol.probes = wol.attempt + 1
          /\ wol.errors = 0 => wol.signals - wol.errors = wol.attempt

\* send, then wait, then re-probe; a successful probe returns true, and
\* nothing happens after the return
C15_Step ==
    /\ wol.pc = "send" => wol'.pc = "sleep" /\ wol'.attempt = wol.attempt
    /\ wol.pc = "sleep" => wol'.pc = "probe" /\ wol'.attempt = wol.attempt
    /\ wol.pc = "probe" =>
          IF wol'.reachable
          THEN wol'.pc = "done" /\ wol'.result = "true" /\ wol'.attempt = wol.attempt
          ELSE \/ wol'.pc = "send" /\ wol'.attempt = wol.attempt + 1
               \/ wol'.pc = "done" /\ wol'.result = "false"
    /\ wol.pc = "done" => wol' = wol

\* C15: if the node is initially unreachable, wake_and_wait performs
\* attempts 1..retries in order, each one send wake signal, wait boot_wait,
\* re-probe; it returns true at the first successful probe and sends no
\* signal and makes no probe after that, so when the k-th re-probe is the
\* first to succeed exactly k wake signals have been sent (k calls of
\* send_magic_packet).
C15_AttemptsInOrder == []C15_Inv /\ [][C15_Step]_vars

\* the second re-probe was the first probe to succeed
C15_Witness ==
    /\ wol.pc = "done"
    /\ wol.result = "true"
    /\ wol.attempt = 2
    /\ wol.signals = 2
    /\ wol.probes = 3
    /\ wol.retries >= 3

C16_Inv ==
    /\ wol.attempt <= wol.retries
    /\ wol.pc = "done" =>
          /\ wol.result \in {"true", "false"}
          /\ wol.result = "false" <=> ~wol.reachable
          /\ wol.result = "false" =>
                /\ wol.attempt = wol.retries
                /\ wol.probes = wol.retries + 1
                /\ wol.signals = wol.retries
                /\ wol.waits = wol.retries

\* every successful probe ends the call with true, so false is returned only
\* when every probe failed
C16_Step ==
    (wol.pc = "probe" /\ wol' # wol) =>
        /\ wol'.probes = wol.probes + 1
        /\ wol'.reachable <=> (wol'.pc = "done" /\ wol'.result = "true")

\* C16: wake_and_wait returns false if and only if the initial probe and all
\* `retries` re-probes fail; exactly `retries` wake attempts were made then,
\* and the call always terminates, after at most `retries` iterations (with
\* retries = 0 after the single initial probe, without a wake signal).
C16_FalseIffAllFail == []C16_Inv /\ [][C16_Step]_vars /\ <>(wol.pc = "done")

\* a call with retries = 0 returned false after one probe, no signal sent
C16_Witness ==
    /\ wol.pc = "done"
    /\ wol.result = "false"
    /\ wol.retries = 0
    /\ wol.probes = 1
    /\ wol.signals = 0

\* C17: a failure to send the wake signal is never escalated: no exception
\* leaves wake_and_wait, the attempt still waits boot_wait and re-probes, it
\* counts against `retries`, and the call goes on as if the signal had been
\* sent and the node was still not reachable.
C17_SendFailureAbsorbed ==
    /\ [](wol.result \in {"none", "true", "false"})
    /\ [](wol.errors <= wol.signals /\ wol.signals <= wol.retries)
    /\ [][wol.pc = "send" =>
            /\ wol'.pc = "sleep"
            /\ wol'.result = "none"
            /\ wol'.attempt = wol.attempt
            /\ wol'.signals = wol.signals + 1
            /\ wol'.waits = wol.waits
            /\ wol'.probes = wol.probes]_vars
    /\ [][(wol.pc = "sleep" /\ wol.errors = wol.signals) =>
            wol'.pc = "probe" /\ wol'.waits = wol.waits + 1]_vars

\* every send of the call failed, it still slept and probed each time and
\* returned false after the last attempt
C17_Witness ==
    /\ wol.pc = "done"
    /\ wol.result = "false"
    /\ wol.retries = 2
    /\ wol.errors = 2
    /\ wol.waits = 2
    /\ wol.probes = 3

\* ---- the availability gate of the reasoning service

\* a step in which the inference node answered for a job of the batch
InferenceAnswered == task = "reasoning_match" /\ run'.results # run.results

\* C18 as stated: in every run of the reasoning match_jobs no job is sent
\* to the inference node unless a reachability probe succeeded earlier in
\* that same call.
C18_ProbedBeforeInference ==
    [][InferenceAnswered => wol.result = "true"]_vars

\* C18 amended: when GAMING_PC_MAC_ADDRESS is configured, match_jobs sends
\* no job to the inference node unless wake_and_wait returned true in that
\* call, which it does only on a successful probe; when the address is not
\* configured match_jobs makes no probe and sends the jobs to the node.
C18_ProbedWhenConfigured ==
    /\ [][InferenceAnswered =>
            IF run.wakes = 0
            THEN wol.result = "none"
            ELSE wol.result = "true" /\ wol.pc = "idle"]_vars
    /\ [][(wol'.result = "true" /\ wol.result # "true") =>
            wol.pc = "probe" /\ wol'.reachable]_vars
    /\ []((task = "reasoning_match" /\ run.pc = "loop" /\ run.wakes = 0) => wol = WolIdle)

\* a job was scored by the node after wake_and_wait had returned true
C18_Witness ==
    /\ task = "reasoning_match"
    /\ run.pc = "loop"
    /\ run.wakes = 1
    /\ wol.result = "true"
    /\ run.results # <<>>
    /\ jobs[run.results[1]].reasoning_match_score # None

\* a step in which wake_and_wait is invoked
WakeInvoked == wol.pc # "probe" /\ wol'.pc = "probe" /\ wol'.probes = 0

\* a step of wake_and_wait itself
WakeActs == wol.pc \in {"probe", "send", "sleep"} /\ wol' # wol /\ task' = task

C19_Step ==
    /\ WakeInvoked =>
          /\ task' = "reasoning_match"
          /\ run'.wakes = 1
          /\ run'.i = 1
          /\ run'.pc = "wake"
    /\ (task = "reasoning_match" /\ task' = task /\ run.pc \in {"wake", "loop"}) =>
          run'.wakes = run.wakes
    /\ WakeActs => jobs' = jobs /\ run' = run /\ xcom' = xcom

\* C19: the availability manager is a stateless gate invoked once per batch,
\* not once per job: one call of the reasoning stage on a batch of n job ids
\* invokes wake_and_wait at most once, before the first id, whatever n is,
\* and wake_and_wait reads and writes no job record.
C19_OncePerBatch == [](run.wakes <= 1) /\ [][C19_Step]_vars

\* the loop went through a batch of two jobs after a single wake_and_wait
C19_Witness ==
    /\ task = "reasoning_match"
    /\ run.pc = "loop"
    /\ Len(run.ids) >= 2
    /\ run.i > Len(run.ids)
    /\ run.wakes = 1
    /\ Len(run.results) >= 2

\* ---- stage ordering

\* the place of a task in the pipeline; 7 once the last task has finished
TaskIndex(t) ==
    IF t = "done" THEN Len(Tasks) + 1 ELSE CHOOSE k \in 1..Len(Tasks) : Tasks[k] = t

\* while a task runs, no later task has published anything
C20_Inv ==
    task # "failed" =>
        \A k \in 1..Len(Tasks) : k >= TaskIndex(task) => xcom[Tasks[k]] = <<>>

C20_Step ==
    /\ (task' # task /\ task' # "failed") =>
          \/ /\ task \notin {"done", "failed"}
             /\ TaskIndex(task') = TaskIndex(task) + 1
             /\ run' = FreshRun \/ task' = "done"
          \/ /\ task = "failed"
             /\ task' = run.stage
             /\ run' = [FreshRun EXCEPT !.tries = run.tries + 1]
    /\ \A k \in 1..Len(Tasks) :
          xcom'[Tasks[k]] # xcom[Tasks[k]] =>
              /\ task = Tasks[k]
              /\ TaskIndex(task') = k + 1
              /\ \A l \in 1..Len(Tasks) : l # k => xcom'[Tasks[l]] = xcom[Tasks[l]]
    /\ (task \in {"cosine_match", "reasoning_match", "combine_scores"}
          /\ run.pc = "start" /\ run'.pc # "start") =>
          run'.ids = xcom[Tasks[TaskIndex(task) - 1]]
    /\ (task = "generate" /\ run.pc = "start" /\ run'.pc # "start") =>
          run'.ids = SelectSeq(xcom["combine_scores"], AtThreshold)
    /\ (task \notin {"ingest", "done", "failed"} /\ task' = task) =>
          xcom'[Tasks[TaskIndex(task) - 1]] = xcom[Tasks[TaskIndex(task) - 1]]

\* C20: stage ordering.  Within one batch the stages run strictly in the
\* order ingest, cosine_match, reasoning_match, combine_scores, generate,
\* curator_notify; no stage begins before the previous one has finished and
\* published its full id list, and each stage consumes exactly the list its
\* immediate predecessor published.
C20_StageOrdering == []C20_Inv /\ [][C20_Step]_vars

\* a run finished in which every stage published a list and the lists shrank
C20_Witness ==
    /\ task = "done"
    /\ Len(xcom["ingest"]) = 2
    /\ xcom["reasoning_match"] = xcom["ingest"]
    /\ Len(xcom["combine_scores"]) = 2
    /\ Len(xcom["generate"]) = 1

\* ---- duplicate handling at ingest

\* the ids of the table, ascending
Created == [j \in 1..Len(jobs) |-> j]

\* the row was stored from a parsed page
Parsed(j) == jobs[j].job_title # "[parse failed]"

\* the step in which ingest_task publishes its list
IngestPublishes == task = "ingest" /\ task' # task /\ conf # <<>>

C22_Step ==
    /\ task = "ingest" => task' \in {"ingest", "cosine_match"}
    /\ (task = "ingest" /\ run.pc = "wait" /\ run' # run) =>
          /\ run'.i = run.i + 1
          /\ sess[0].outcome # "ok" => run'.results = run.results
          /\ sess[0].outcome = "ok" => run'.results = Append(run.results, sess[0].added)
    /\ IngestPublishes =>
          /\ run.i = Len(conf) + 1
          /\ xcom'["ingest"] = SelectSeq(Created, Parsed)

Drafted(j) == jobs[j].status = "drafted" /\ jobs[j].cover_letter_draft # None

\* curator_notify_task returns whatever the request did, and writes no job
C23_Step ==
    task = "curator_notify" =>
        /\ task' \in {"curator_notify", "done"}
        /\ jobs' = jobs
        /\ xcom' = xcom

\* once the run is over every job the generate task published is drafted
C23_Inv ==
    task \in {"curator_notify", "done"} =>
        \A j \in Range(xcom["generate"]) : Drafted(j)

\* C23: notify is best-effort.  Any failure of the curator notification is
\* absorbed by curator_notify_task, does not fail the batch and changes no
\* job record; every job drafted earlier in the batch keeps status drafted
\* and its drafts whatever the notification outcome.
C23_NotifyBestEffort == []C23_Inv /\ [][C23_Step]_vars

\* the notification request failed, the run is done and its draft is kept
C23_Witness ==
    /\ task = "done"
    /\ run.pc = "notify_failed"
    /\ \E j \in Range(xcom["generate"]) : Drafted(j)

\* ---- structural failure of a stage

\* the task has failed on its last try: the DAG run is failed
RunFailed == task = "failed" /\ run.tries = RETRIES

\* C24 as stated: a structural failure of a stage prevents every later stage
\* of the batch from running and is surfaced as a failed batch run.
C24_FailureEndsRun ==
    [][(run.tries >= 1 /\ task # "failed") => task' \in {task, "failed"}]_vars

\* a failed task has published nothing, and neither has any later task
C24_Inv ==
    task = "failed" =>
        \A k \in 1..Len(Tasks) :
            k >= TaskIndex(run.stage) => xcom[Tasks[k]] = <<>>

C24_Step ==
    /\ (task # "failed" /\ task' = "failed") =>
          /\ jobs' = jobs
          /\ xcom' = xcom
          /\ run'.stage = task
          /\ run'.tries = run.tries
    /\ (task = "failed" /\ task' # "failed") =>
          /\ run.tries < RETRIES
          /\ task' = run.stage
          /\ jobs' = jobs
          /\ xcom' = xcom
    /\ ~RunFailed

\* C24 amended: a batch-level structural failure (a stage service cannot be
\* reached, or answers with an error other than the reasoning stage's 503)
\* aborts that try of the stage's task and changes no job record; the task
\* is tried once more, and when its last try fails too no later stage of the
\* batch runs or publishes anything and the run stays failed, with every
\* value persisted before the failure unchanged.
C24_FailureEndsRunAfterRetry == []C24_Inv /\ [][C24_Step]_vars

\* the reasoning task failed on both tries; the cosine score stored by the
\* stage before it is still there
C24_Witness ==
    /\ RunFailed
    /\ run.stage = "reasoning_match"
    /\ \E j \in Range(xcom["cosine_match"]) : HasCosine(j)
    /\ xcom["reasoning_match"] = <<>>

\* ---- retries of a task

\* C28 as stated: within one batch run each stage function is invoked at
\* most once, also after it fails.
C28_InvokedOnce == [][task = "failed" => task' = "failed"]_vars

C28_Step ==
    run'.tries # run.tries =>
        \/ /\ task = "failed"
           /\ task' = run.stage
           /\ run'.tries = run.tries + 1
        \/ /\ task \notin {"failed", "done"}
           /\ task' \notin {task, "failed"}
           /\ run'.tries = 0

\* C28 amended: within one batch run each task function is invoked at most
\* 1 + retries = 2 times: a second time only after its first invocation
\* failed, never after it returned, and the count starts again with the next
\* task of the run.
C28_InvokedAtMostTwice == [](run.tries <= RETRIES) /\ [][C28_Step]_vars

\* the cosine task runs for the second time
C28_Witness ==
    /\ task = "cosine_match"
    /\ run.tries = 1
    /\ run.pc = "loop"
    /\ run.i > 1

\* ---- the scores a run leaves behind

\* the DAG run is over
RunEnded == task = "done" \/ RunFailed

\* the stored combined score is the combiner's value for the stored scores
CorrectlyCombined(j) ==
    /\ HasCosine(j)
    /\ jobs[j].combined_match_score =
          Some(Combined(Val(jobs[j].cosine_match_score), jobs[j].reasoning_match_score))

\* C26 as stated: when a batch run ends after a partial failure, each job
\* of the batch with a cosine score has combined_match_score equal to the
\* combiner's value for its current cosine and reasoning scores.
C26_ScoredAtEnd ==
    RunEnded => \A j \in Range(xcom["ingest"]) : HasCosine(j) => CorrectlyCombined(j)

\* C26 amended: when a batch run ends after a partial failure, every job
\* with a combined_match_score has it equal to the combiner's value for its
\* current cosine and reasoning scores, and when the run ends without a
\* failed task each job of the batch with a cosine score has a combined
\* score; a run that a failed stage aborted before the combiner leaves jobs
\* with a cosine score and no combined score.
C26_CombinedConsistentAtEnd ==
    /\ RunEnded =>
          \A j \in 1..Len(jobs) :
              jobs[j].combined_match_score # None => CorrectlyCombined(j)
    /\ task = "done" =>
          \A j \in Range(xcom["ingest"]) :
              HasCosine(j) => jobs[j].combined_match_score # None

\* the generate task failed on both tries after the combiner had stored the
\* score of a job with a reasoning score
C26_Witness ==
    /\ RunFailed
    /\ run.stage = "generate"
    /\ \E j \in Range(xcom["combine_scores"]) :
          /\ jobs[j].reasoning_match_score # None
          /\ CorrectlyCombined(j)

\* ---- the fields each stage writes

\* the stage service that runs is t and j is the item of its loop
Writes(t, j) == task = t /\ run.pc = "loop" /\ run.i <= Len(run.ids) /\ j = run.ids[run.i]

C30_Step ==
    /\ Len(jobs') >= Len(jobs)
    /\ \A j \in 1..Len(jobs) :
          /\ jobs'[j].id = jobs[j].id
          /\ jobs'[j].job_url = jobs[j].job_url
          /\ jobs'[j].date_found = jobs[j].date_found
          /\ jobs'[j].job_title = jobs[j].job_title
          /\ jobs'[j].job_description = jobs[j].job_description
          /\ jobs'[j].cosine_match_score # jobs[j].cosine_match_score =>
                Writes("cosine_match", j)
          /\ (\/ jobs'[j].reasoning_match_score # jobs[j].reasoning_match_score
              \/ jobs'[j].reasoning_explanation # jobs[j].reasoning_explanation) =>
                Writes("reasoning_match", j)
          /\ jobs'[j].combined_match_score # jobs[j].combined_match_score =>
                Writes("combine_scores", j)
          /\ (\/ jobs'[j].cover_letter_draft # jobs[j].cover_letter_draft
              \/ jobs'[j].cv_variant_generated # jobs[j].cv_variant_generated
              \/ jobs'[j].status # jobs[j].status) =>
                Writes("generate", j)

\* C30: each stage mutates a job record exclusively through its own fields
\* and only for ids of its input: the cosine stage writes only
\* cosine_match_score, the reasoning stage only reasoning_match_score and
\* reasoning_explanation, the combiner only combined_match_score, the
\* generator only cover_letter_draft, cv_variant_generated and status;
\* combined_match_score is written by no operation other than
\* combine_scores, date_found and job_url are never changed after creation,
\* and no stage deletes a record.
C30_OwnFieldsOnly == [][C30_Step]_vars

\* one job went through the four stages while another one is as ingestion
\* left it
C30_Witness ==
    \E j1, j2 \in 1..Len(jobs) :
        /\ jobs[j1].cosine_match_score # None
        /\ jobs[j1].reasoning_match_score # None
        /\ jobs[j1].combined_match_score # None
        /\ jobs[j1].status = "drafted"
        /\ jobs[j2] = NewJob(j2, jobs[j2].job_url, jobs[j2].job_title,
                             jobs[j2].job_description)

\* ---- the same batch is run again

\* similarity and combined score are those of a complete run
Scored(j) ==
    /\ jobs[j].cosine_match_score = Some(cosine_similarity(Val(jobs[j].job_description)))
    /\ CorrectlyCombined(j)

\* C25: re-running the pipeline on the same batch after a partial failure
\* leaves every job record with the scores of one complete run of that
\* batch: once a later run has ended without a failed task, every record
\* with a description has its cosine and its combined score.
C25_RerunCompletes ==
    (dag_run > 1 /\ task = "done") =>
        \A j \in 1..Len(jobs) : jobs[j].job_description # None => Scored(j)

\* the j-th record exists and was stored with a description
HasDescription(j) == j <= Len(jobs) /\ jobs[j].job_description # None

\* the j-th record exists and has a combined score
IsCombined(j) == j <= Len(jobs) /\ jobs[j].combined_match_score # None

\* C27: if the scheduler keeps re-running the same batch and the stage
\* services are eventually available, every job record that ingestion
\* created with a description eventually gets a combined_match_score.
C27_EventuallyCombined ==
    \A j \in 1..MaxBatch : HasDescription(j) ~> IsCombined(j)

\* ---- end-to-end scenario

\* the batch is [a, b] with a.cosine = 0.8, a.reasoning = 0.5, b.cosine = 0.4
Scenario(a, b) ==
    /\ xcom["reasoning_match"] = <<a, b>>
    /\ jobs[a].cosine_match_score = Some(80000)
    /\ jobs[a].reasoning_match_score = Some(50000)
    /\ jobs[b].cosine_match_score = Some(40000)

\* C29: end-to-end scenario.  For a batch of two jobs a and b with a.cosine
\* = 0.8, a.reasoning = 0.5 and b.cosine = 0.4 (below 0.6, so no reasoning)
\* the pipeline stores a.combined = 0.59 and b.combined = 0.4, and with
\* generate_threshold = 0.5 the list of ids sent to generation is exactly
\* [a].
C29_Scenario ==
    \A a, b \in 1..Len(jobs) :
        Scenario(a, b) =>
            /\ jobs[b].reasoning_match_score = None
            /\ Combine_Returned =>
                  /\ jobs[a].combined_match_score = Some(59000)
                  /\ jobs[b].combined_match_score = Some(40000)
                  /\ xcom["combine_scores"] = <<a, b>>
            /\ (task = "generate" /\ run.pc = "loop") => run.ids = <<a>>
            /\ Range(xcom["generate"]) \subseteq {a}

\* the generator works on [a] after the combiner stored 0.59 and 0.4
C29_Witness ==
    /\ Scenario(1, 2)
    /\ task = "generate"
    /\ run.pc = "loop"
    /\ run.ids = <<1>>
    /\ jobs[1].combined_match_score = Some(59000)
    /\ jobs[2].combined_match_score = Some(40000)

\* ---- status of a job record

\* the place of a status in discovered -> matched -> drafted -> submitted ->
\* {rejected | offered}
StatusRank(status) ==
    CASE status = "discovered" -> 1
      [] status = "matched" -> 2
      [] status = "drafted" -> 3
      [] status = "submitted" -> 4
      [] status \in {"rejected", "offered"} -> 5

\* C21: status monotonicity.  No operation ever moves a job record's status
\* backwards along discovered -> matched -> drafted -> submitted ->
\* {rejected | offered}; in particular the generate stage never changes a
\* record whose status is submitted, rejected or offered back to drafted.
C21_StatusMonotonic ==
    [][\A j \in 1..Len(jobs) :
          StatusRank(jobs'[j].status) >= StatusRank(jobs[j].status)]_vars

\* ---- invalid URLs

\* the call of caller s is on a url that url_is_valid rejects
OnInvalidUrl(s) == sess[s].url # None /\ ~url_is_valid(Val(sess[s].url))

\* a call on an invalid url is over at once, and no row carries such a url
C31_Inv ==
    /\ \A s \in Sessions :
          OnInvalidUrl(s) => sess[s] = [pc |-> "idle", url |-> sess[s].url,
                                        outcome |-> "ValueError", job_id |-> 0, added |-> 0]
    /\ \A j \in 1..Len(jobs) : url_is_valid(jobs[j].job_url)

\* the step that takes an invalid url starts from the first statement of
\* ingest_job and leaves the table as it is
C31_Step ==
    \A s \in Sessions :
        (sess'[s] # sess[s] /\ sess'[s].url # None /\ ~url_is_valid(Val(sess'[s].url))) =>
            /\ sess[s].pc = "idle"
            /\ sess'[s].pc = "idle"
            /\ jobs' = jobs

\* C31: an invalid URL (scheme not http/https, or no network location) is
\* rejected by ingest_job with ValueError before any side effect: the call
\* never reaches the idempotency query or the fetch, and no record is
\* created or changed.
C31_InvalidRejected == []C31_Inv /\ [][C31_Step]_vars

\* both kinds of invalid url were rejected next to a stored record
C31_Witness ==
    /\ Len(jobs) >= 1
    /\ \E s1, s2 \in Sessions :
          /\ OnInvalidUrl(s1) /\ Val(sess[s1].url).scheme = "ftp"
          /\ OnInvalidUrl(s2) /\ Val(sess[s2].url).netloc = ""

\* ---------------------------------------------------------------------- C32
\* C32: a failure while a stage processes one job id (the commit included)
\* counts the item as failed and leaves every stored record as it was: the
\* item gets no result, no record ever holds a reasoning score without its
\* explanation, and a later commit of the same stage call writes the record
\* of its own item only.
GuardedStages == {"cosine_match", "reasoning_match", "generate"}
ItemCountedFailed == InLoop(task) /\ task' = task /\ run'.failed = run.failed + 1
ItemCommitted == InLoop(task) /\ task' = task /\ run'.results # run.results

C32_Step ==
    /\ (task \in GuardedStages /\ ItemRaises) => ItemCountedFailed
    /\ ItemCountedFailed => /\ jobs' = jobs
                            /\ run'.results = run.results
                            /\ run'.i = run.i + 1
    /\ ItemCommitted => /\ Len(jobs') = Len(jobs)
                        /\ \A j \in 1..Len(jobs) : j # Item => jobs'[j] = jobs[j]

C32_Inv ==
    \A j \in 1..Len(jobs) :
        (jobs[j].reasoning_match_score = None) <=> (jobs[j].reasoning_explanation = None)

C32_FailedItemWritesNothing == []C32_Inv /\ [][C32_Step]_vars

\* the reasoning stage failed on the first of two items after the job was
\* scored by the cosine stage: the record has neither score nor explanation
C32_Witness ==
    /\ task = "reasoning_match"
    /\ run.pc = "loop"
    /\ Len(run.ids) = 2
    /\ run.i = 2
    /\ run.failed = 1
    /\ run.ids[1] \in run.raised
    /\ ~NotFound(run.ids[1])
    /\ jobs[run.ids[1]].cosine_match_score # None
    /\ jobs[run.ids[1]].reasoning_match_score = None
    /\ jobs[run.ids[1]].reasoning_explanation = None

\* ---------------------------------------------------------------------- C33
\* C33: two DAG runs at once on disjoint URLs do not disturb each other.  Under
\* every interleaving of their steps each run handles the rows of its own
\* URLs only, a step of one run changes or adds rows of that run only and
\* leaves the other run's rows, XComs and stage call as they are, and so each
\* row gets the scores and the status its own run gives it: a reasoning score
\* only where its own cosine score passed the filter, a draft only where its
\* own combined score qualified.
OwnRows(c) == {j \in 1..Len(jobs) : jobs[j].job_url \in Range(c)}
Active == Batch(conf, task, xcom, run, wol)
Handles(b) ==
    Range(b.run.ids) \cup Range(b.run.results)
        \cup UNION {Range(b.xcom[Tasks[k]]) : k \in 1..Len(Tasks)}

C33_Inv ==
    /\ Handles(Active) \subseteq OwnRows(conf)
    /\ Handles(other) \subseteq OwnRows(other.conf)
    /\ OwnRows(conf) \cap OwnRows(other.conf) = {}
    /\ \A j \in 1..Len(jobs) :
         /\ jobs[j].reasoning_match_score # None => ~BelowGate(jobs[j])
         /\ jobs[j].status = "drafted" => Qualifies(j, GENERATE_THRESHOLD)

C33_Step ==
    IF other' = other
    THEN /\ Len(jobs') >= Len(jobs)
         /\ \A j \in OwnRows(other.conf) : jobs'[j] = jobs[j]
         /\ \A j \in 1..Len(jobs') :
              (j > Len(jobs) \/ jobs'[j] # jobs[j]) => jobs'[j].job_url \in Range(conf)
    ELSE /\ jobs' = jobs
         /\ other' = Active
         /\ Active' = other

C33_DisjointRunsIsolated == []C33_Inv /\ [][C33_Step]_vars

\* both runs are over, the row of each was scored and combined, and the row
\* of the run that started second was inserted first
C33_Witness ==
    /\ task = "done"
    /\ other.task = "done"
    /\ Len(jobs) = 2
    /\ jobs[1].job_url.path = "below_gate"
    /\ jobs[2].job_url.path = "close"
    /\ jobs[1].combined_match_score # None
    /\ jobs[2].reasoning_match_score # None
    /\ jobs[2].combined_match_score # None
    /\ jobs[2].status = "drafted"

\* ---------------------------------------------------------------------- C34
\* C34: every batch run terminates.  A run that keeps being scheduled reaches
\* a final state, all tasks done or the run failed on the last try of a task,
\* and stays there; no task is waited for indefinitely, and every
\* wake_and_wait that was entered returns.
C34_Terminates ==
    /\ <>[]RunOver
    /\ \A k \in 1..Len(Tasks) : (task = Tasks[k]) ~> (task # Tasks[k])
    /\ (wol.pc \in {"probe", "send", "sleep"}) ~> (wol.pc \in {"idle", "done"})

\* a run on a full batch went through every task: a job was drafted, and the
\* wake loop had sent a signal on the way
C34_Witness ==
    /\ task = "done"
    /\ Len(conf) >= 2
    /\ run.stage = "curator_notify"
    /\ \E j \in 1..Len(jobs) : jobs[j].status = "drafted"
    /\ Len(xcom["reasoning_match"]) >= 1

\* ---------------------------------------------------------------------- C35
\* C35: for an address that has 12 hex digits once ':' and '-' are removed,
\* send_magic_packet sends exactly one broadcast datagram to port 9 whose
\* payload is 102 bytes, 6 bytes 0xFF and 16 times the 6 bytes of the
\* address; every other address is rejected and nothing is sent.
Cleaned(mac_address) == Replace(Replace(mac_address, ":"), "-")
TwelveHexDigits(mac) == Len(mac) = 12 /\ \A i \in 1..12 : mac[i] \in HexDigits
HardwareId(mac) == [i \in 1..6 |-> <<mac[2 * i - 1], mac[2 * i]>>]
MagicPayload(id) == [i \in 1..102 |-> IF i <= 6 THEN <<"f", "f">> ELSE id[((i - 7) % 6) + 1]]

C35_MagicPacket ==
    udp.pc \notin {"idle", "call"} =>
        IF TwelveHexDigits(Cleaned(udp.mac_address))
        THEN /\ udp.pc = "returned"
             /\ Len(udp.sent) = 1
             /\ udp.sent[1].payload = MagicPayload(HardwareId(Cleaned(udp.mac_address)))
             /\ udp.sent[1].port = 9
             /\ udp.sent[1].SO_BROADCAST
        ELSE /\ udp.pc = "ValueError"
             /\ udp.sent = <<>>

\* what the code does guarantee: exactly one datagram per accepted address, to
\* the broadcast address, port 9, of 6 bytes 0xFF and 16 times the bytes
\* fromhex returned; 102 bytes for every address of 12 hex digits
C35_AsBuilt ==
    udp.pc \notin {"idle", "call"} =>
        /\ TwelveHexDigits(Cleaned(udp.mac_address)) =>
              /\ udp.pc = "returned"
              /\ Len(udp.sent) = 1
              /\ udp.sent[1].payload = MagicPayload(HardwareId(Cleaned(udp.mac_address)))
              /\ udp.sent[1].port = 9
              /\ udp.sent[1].SO_BROADCAST
        /\ Len(Cleaned(udp.mac_address)) # 12 => udp.pc = "ValueError"
        /\ udp.pc = "ValueError" => udp.sent = <<>>
        /\ Len(udp.sent) <= 1

\* an address of 12 characters with blanks is accepted: a short packet is sent
C35_ShortPacket ==
    /\ udp.pc = "returned"
    /\ ~TwelveHexDigits(Cleaned(udp.mac_address))
    /\ Len(udp.sent[1].payload) < 102

\* ---------------------------------------------------------------------- C36
\* C36: every input id of a stage call is accounted for exactly once.  After
\* each item of the cosine and generate loops processed + failed is the number
\* of items done, in the reasoning loop processed + failed + skipped is, where
\* an item is skipped only for a cosine score below the filter; so at the end
\* of the call the sum is the number of input ids.  An id is appended to the
\* results exactly in the step that commits the stage's write for it.
Processed == Len(run.results)
InStageCall(t) == run.stage = t /\ run.pc = "loop"

\* the record holds what the stage commits for an item
HoldsWrite(t, job) ==
    CASE t = "cosine_match" -> job.cosine_match_score # None
      [] t = "reasoning_match" -> /\ job.reasoning_match_score # None
                                  /\ job.reasoning_explanation # None
      [] t = "generate" -> job.status = "drafted" /\ job.cover_letter_draft # None

C36_Inv ==
    /\ \A t \in {"cosine_match", "generate"} :
         InStageCall(t) => /\ Processed + run.failed = run.i - 1
                           /\ run.skipped = 0
    /\ InStageCall("reasoning_match") =>
         Processed + run.failed + run.skipped = run.i - 1
    /\ \A t \in GuardedStages : InStageCall(t) => run.i <= Len(run.ids) + 1

C36_Step ==
    (task \in GuardedStages /\ InLoop(task) /\ task' = task) =>
        /\ run'.results # run.results =>
              /\ run'.results = Append(run.results, Item)
              /\ HoldsWrite(task, jobs'[Item])
        /\ (Len(jobs') = Len(jobs) /\ jobs' # jobs) =>
              run'.results = Append(run.results, Item)
        /\ run'.skipped # run.skipped =>
              /\ task = "reasoning_match"
              /\ run'.skipped = run.skipped + 1
              /\ BelowGate(jobs[Item])
              /\ run'.results = run.results
              /\ run'.failed = run.failed

C36_Accounted == []C36_Inv /\ [][C36_Step]_vars

\* a reasoning call on two ids is over: one was scored, one was skipped
C36_Witness ==
    /\ InStageCall("reasoning_match")
    /\ Len(run.ids) = 2
    /\ run.i = 3
    /\ Processed = 1
    /\ run.skipped = 1
    /\ run.failed = 0

\* ---------------------------------------------------------------------- C37
\* C37: a job with status drafted has a cover_letter_draft of at least 100
\* characters, in every state reached through generate_applications; the
\* status becomes drafted only in the step that stores such a cover letter,
\* whether or not a CV variant came with it.
C37_Inv ==
    \A j \in 1..Len(jobs) :
        jobs[j].status = "drafted" =>
            /\ jobs[j].cover_letter_draft # None
            /\ Val(jobs[j].cover_letter_draft) >= MIN_COVER_LETTER

C37_Step ==
    \A j \in 1..Len(jobs) :
        (jobs[j].status # "drafted" /\ jobs'[j].status = "drafted") =>
            /\ InLoop("generate")
            /\ j = Item
            /\ run'.results = Append(run.results, j)
            /\ jobs'[j].cover_letter_draft # None
            /\ Val(jobs'[j].cover_letter_draft) >= MIN_COVER_LETTER
            /\ jobs'[j].cv_variant_generated \in {None, Some("cv")}

C37_DraftedHasCoverLetter == []C37_Inv /\ [][C37_Step]_vars

\* the CV variant failed: the job is drafted, is in the results, and has a
\* cover letter and no CV variant
C37_Witness ==
    /\ InStageCall("generate")
    /\ \E j \in Range(run.results) :
         /\ jobs[j].status = "drafted"
         /\ jobs[j].cover_letter_draft = Some(MIN_COVER_LETTER)
         /\ jobs[j].cv_variant_generated = None

\* ---------------------------------------------------------------------- C38
\* C38: a job whose generation fails (not found, no description, the
\* cover-letter call raises, the cover letter is shorter than 100 characters)
\* keeps its status, cover_letter_draft and cv_variant_generated, is counted
\* as failed and gets no result; generate_task pushes the results only, so
\* the job is not among the ids curator_notify_task sends.
GenerationFails ==
    /\ InLoop("generate")
    /\ task' = "generate"
    /\ run'.failed = run.failed + 1

C38_Step ==
    /\ GenerationFails =>
          /\ jobs' = jobs
          /\ run'.results = run.results
          /\ run'.i = run.i + 1
    /\ (InLoop("generate") /\ task' = "generate" /\ run'.i = run.i + 1
            /\ run'.results = run.results) => GenerationFails
    /\ (LoopDone("generate") /\ task' = "curator_notify") =>
          /\ xcom'["generate"] = run.results
          /\ \A k \in 1..Len(run.ids) :
                run.ids[k] \notin Range(run.results) =>
                    run.ids[k] \notin Range(xcom'["generate"])

C38_Inv ==
    task \in {"curator_notify", "done"} =>
        /\ Range(xcom["generate"]) \subseteq Range(xcom["combine_scores"])
        /\ \A j \in Range(xcom["generate"]) : Drafted(j)

C38_FailedGenerationUntouched == []C38_Inv /\ [][C38_Step]_vars

\* of two jobs that qualified one was drafted and goes to the curator; the
\* generation of the other failed: it has no draft and is not sent
C38_Witness ==
    /\ task = "curator_notify"
    /\ Len(xcom["generate"]) = 1
    /\ \E j \in Range(xcom["combine_scores"]) :
          /\ Qualifies(j, GENERATE_THRESHOLD)
          /\ j \notin Range(xcom["generate"])
          /\ jobs[j].status # "drafted"
          /\ jobs[j].cover_letter_draft = None
          /\ jobs[j].cv_variant_generated = None

\* ---------------------------------------------------------------------- C39
\* C39: load_assets is an upsert that is safe to re-run.  From a store with at
\* most one active row per asset_type, every sequence of runs and file edits
\* keeps at most one active row per asset_type; a run adds no row and changes
\* no row of a type whose file is missing or has the content of the active
\* row; for a type whose file differs from the active row the run deactivates
\* that row and adds one active row with the content of the file and version
\* = old version + 1 (version 1 when the type has no active row).
AddedRows(t) == {i \in (Len(assets) + 1)..Len(assets') : assets'[i].asset_type = t}
FileUnchanged(t) ==
    /\ files[t] # None
    /\ ActiveRows(assets, t) # {}
    /\ \A i \in ActiveRows(assets, t) : assets[i].content = Val(files[t])
NextVersion(t) ==
    IF ActiveRows(assets, t) = {} THEN 1
    ELSE assets[CHOOSE i \in ActiveRows(assets, t) : TRUE].version + 1

C39_Inv == \A t \in AssetTypes : Cardinality(ActiveRows(assets, t)) <= 1

C39_Step ==
    files' = files =>
        /\ Len(assets') >= Len(assets)
        /\ \A t \in AssetTypes :
             IF files[t] = None \/ FileUnchanged(t)
             THEN /\ AddedRows(t) = {}
                  /\ \A i \in 1..Len(assets) :
                        assets[i].asset_type = t => assets'[i] = assets[i]
             ELSE /\ Cardinality(AddedRows(t)) = 1
                  /\ \A n \in AddedRows(t) :
                        assets'[n] = ProfessionalAsset(t, Val(files[t]), NextVersion(t), TRUE)
                  /\ \A i \in 1..Len(assets) :
                        assets[i].asset_type = t =>
                            assets'[i] = IF i \in ActiveRows(assets, t)
                                         THEN [assets[i] EXCEPT !.is_active = FALSE]
                                         ELSE assets[i]

C39_UpsertSafeToRerun == []C39_Inv /\ [][C39_Step]_vars

\* a run on a changed file has replaced the active narrative: the old row is
\* inactive, the row the run added is active, one version higher, and has the
\* content of the file, so that the next run changes nothing
C39_Witness ==
    /\ Len(assets) >= 3
    /\ \E i \in 1..Len(assets), n \in 3..Len(assets) :
          /\ i < n
          /\ assets[i].asset_type = "narrative"
          /\ assets[n].asset_type = "narrative"
          /\ ~assets[i].is_active
          /\ assets[n].is_active
          /\ assets[n].version = assets[i].version + 1
          /\ assets[n].content # assets[i].content
          /\ files["narrative"] = Some(assets[n].content)
    /\ UpsertFrom(assets, 1) = assets
====
